---- MODULE Spec2Model ----
(***************************************************************************)
(* A model of the ThreadSanitizer v2 run-time core (tsan_rtl.cc): the      *)
(* thread registry, the mutex happens-before bookkeeping, the per-thread   *)
(* event trace and the shadow-cell algorithm of MemoryAccess.              *)
(*                                                                         *)
(* One 8-byte application word (one shadow cell of kShadowCnt slots) and   *)
(* NMutex mutex addresses are modelled.  Every handler is one action; the  *)
(* slot scan of MemoryAccess is also available split into its relaxed      *)
(* loads and stores (SpecRace) so that concurrent scans interleave.        *)
(*                                                                         *)
(* Spec runs all handlers.  The properties are checked on slices of it:    *)
(*   SpecLife    the thread registry calls alone                           *)
(*   SpecHB      the registry calls and whole-word accesses                *)
(*   SpecMutex   two threads, one mutex, accesses to one range             *)
(*   SpecSynch   as SpecMutex, the second thread created before any access *)
(*   SpecShadow  threads without synchronization, all access ranges        *)
(*   SpecRace    the slot scan split into its loads and stores             *)
(*   SpecUid     the registry calls with uids no thread carries            *)
(*   SpecTrace   function entries and exits, accesses, trace rotation      *)
(*   SpecClock   two threads, every call that touches a clock or an epoch  *)
(*   SpecSpin    MutexLock and MutexUnlock split at the table, the clock   *)
(*               and the spinlock                                          *)
(*   SpecLocks   the calls that take report_mtx, thread_mtx or a trace     *)
(*               mutex, split lock by lock (SpecLocksFair: with fairness)  *)
(***************************************************************************)
EXTENDS Integers, FiniteSets, Sequences, TLC

\* ---------------------------------------------------------------- bounds
\* Build-time constants of the run-time, scaled down.
kMaxTid == 3
kShadowCnt == 2
kTraceSize == 6
kTraceParts == 2
\* Bounds of the exploration.
MaxEpoch == 7
MaxEpochHB == 2
MaxEpochRace == 3
MaxEpochClock == 4
MaxEpochSpin == 4
MaxEpochLocks == 6
MaxUid == 2
NMutex == 1
MaxPc == 2
\* The length of the array ReportRace passes to RestoreStack.
kStackSize == 64

Tids == 0 .. (kMaxTid - 1)
Uids == 1 .. MaxUid
Mutexes == 1 .. NMutex
PCs == 1 .. MaxPc
Slots == 0 .. (kShadowCnt - 1)

\* The accesses the instrumentation issues on the modelled word: <<addr & 7, size>>,
\* each inside the word (wider or straddling accesses are split before entry).
Accesses == { <<0, 4>>, <<0, 8>>, <<5, 1>> }
RaceAccesses == { <<0, 4>>, <<0, 8>> }

Min(a, b) == IF a < b THEN a ELSE b
Max(a, b) == IF a > b THEN a ELSE b

\* ---------------------------------------------------------------- state
VARIABLES
  status,            \* ThreadContext::status, per tid
  uid,               \* ThreadContext::uid
  detached,          \* ThreadContext::detached
  thrp,              \* ThreadContext::thr is non-null
  tsync,             \* ThreadContext::sync (a clock)
  thread_seq,        \* Context::thread_seq
  epoch,             \* ThreadState::fast.epoch, per tid
  fast_synch_epoch,  \* ThreadState::fast_synch_epoch
  clock,             \* ThreadState::clock
  events,            \* ThreadState::trace.events
  headers,           \* ThreadState::trace.headers[].epoch0
  synctab,           \* Context::synctab: per mutex address, present and clock
  shadow,            \* the shadow cell of the word: kShadowCnt slots
  reports,           \* the reports handed to the suppressor/printer
  died,              \* Die() was reached
  mop,               \* per tid: the locals of a MemoryAccess in progress
  stored,            \* history: every descriptor a StoreShadow has written
  hist,              \* history: per tid, the accesses since its last release
  edges,             \* history: release/acquire pairs that took place
  unlockAt,          \* history: per mutex and tid, epoch of the last MutexUnlock
  callstack,         \* history: per tid and epoch, the pcs of the functions entered
                     \* and not left when the event of that epoch was recorded
  appended,          \* history: per tid and epoch, the event TraceAddEvent was called with
  last,              \* history: the operation that led to this state
  report_mtx,        \* Context::report_mtx: the tid that holds it, or NoTid
  thread_mtx,        \* Context::thread_mtx: its holder
  trace_mtx,         \* ThreadState::trace.mtx, per tid: its holder
  spin,              \* MutexVar::mtx, per mutex address and sync object: its holder
  dups,              \* Context::synctab: per address, the clocks of the sync objects
                     \* inserted after the first one
  sop,               \* per tid: the locals of a MutexLock/MutexUnlock in progress
  call,              \* per tid: the position in a call that takes a lock
  raced              \* two threads have operated on one sync clock at a time

vars == << status, uid, detached, thrp, tsync, thread_seq, epoch,
           fast_synch_epoch, clock, events, headers, synctab, shadow,
           reports, died, mop, stored, hist, edges, unlockAt, callstack,
           appended, last, report_mtx, thread_mtx, trace_mtx, spin, dups,
           sop, call, raced >>

registry == << status, uid, detached, thrp, tsync, thread_seq >>
tracev == << events, headers >>
ghosts == << stored, hist, edges, unlockAt, callstack, appended >>
locks == << report_mtx, thread_mtx, trace_mtx, spin, dups, sop, call, raced >>

\* ---------------------------------------------------------------- clocks
ZeroClock == [t \in Tids |-> 0]

\* ThreadClock::get
ClockGet(c, t) == c[t]

\* ThreadClock::set
ClockSet(c, t, e) == [c EXCEPT ![t] = e]

\* ThreadClock::acquire: pointwise max with a sync clock
ClockAcquire(c, s) == [t \in Tids |-> Max(c[t], s[t])]

\* ThreadClock::release: the target becomes >= self componentwise
ClockRelease(c, s) == [t \in Tids |-> Max(c[t], s[t])]

\* ---------------------------------------------------------------- shadow
\* union Shadow: raw == 0 is the all-zero descriptor
Zero == [tid |-> 0, epoch |-> 0, addr0 |-> 0, addr1 |-> 0, write |-> FALSE]

\* the descriptor s0 MemoryAccess builds
MakeShadow(t, e, a, w) ==
  [tid |-> t, epoch |-> e, addr0 |-> a[1],
   addr1 |-> Min(a[1] + a[2] - 1, 7), write |-> w]

\* the scan's starting slot
ScanOff(a) ==
  IF a[2] = 1 THEN a[1] % 8
  ELSE IF a[2] = 2 THEN (a[1] % 8) - (a[1] % 2)
  ELSE IF a[2] = 4 THEN (a[1] % 8) - (a[1] % 4)
  ELSE 0

\* ---------------------------------------------------------------- trace
ZeroEvent == [typ |-> "Mop", pc |-> 0]
\* the entry of `appended` for an epoch at which no event was recorded
NoEvent == [typ |-> "None", pc |-> 0]
PartSize == kTraceSize \div kTraceParts

\* TraceSwitch: the header of the partition that starts at epoch e
TraceSwitch(h, e) == [h EXCEPT ![(e \div PartSize) % kTraceParts] = e]

\* the headers when no partition is ever switched
TraceHeadersKeep(h, e) == h

\* TraceAddEvent: the headers after the event stamped e
TraceHeaders(h, e) == IF e % PartSize = 0 THEN TraceSwitch(h, e) ELSE h

\* TraceAddEvent: the ring after the event stamped e
TraceEvents(ev, e, typ, addr) ==
  [ev EXCEPT ![e % kTraceSize] = [typ |-> typ, pc |-> addr]]

\* ---------------------------------------------------------------- history
ZeroCell == [i \in Slots |-> Zero]

\* `last` after an operation other than a MemoryAccess; after a MemoryAccess it
\* holds the caller, the input (a: addr & 7 and size), the descriptor s0, the
\* cell (pre) and the caller's accesses since its last release (had) before the
\* call, and whether ReportRace was called (rep); after another recorded call it
\* holds the caller and the argument (arg: a uid, a mutex address or a pc)
NoLast ==
  [op |-> "other", t |-> 0, arg |-> 0, a |-> <<0, 0>>, s0 |-> Zero,
   pre |-> ZeroCell, had |-> {}, rep |-> FALSE]

\* `last` after the call op(arg) of thread t
LastCall(op, t, arg) == [NoLast EXCEPT !.op = op, !.t = t, !.arg = arg]

\* the open functions at the latest epoch of the history cs
Open(cs) == cs[Len(cs)]

\* the open functions after a function exit
Left(fs) == IF fs = << >> THEN << >> ELSE SubSeq(fs, 1, Len(fs) - 1)

\* the caller has acquired: its earlier accesses are now "before an acquire"
HistAcquired(h) == { [r EXCEPT !.acq = TRUE] : r \in h }

\* ---------------------------------------------------------------- Init
\* The state Initialize leaves: thread 0 created (detached, uid 0) and started.
IdleMop == [pc |-> "idle", s0 |-> Zero, off |-> 0, i |-> 0, replaced |-> FALSE,
            racy |-> Zero, val |-> Zero, ret |-> FALSE]

\* no thread: the holder of a lock that is free
NoTid == -1

\* the sync objects one address may have in the table: every thread may insert
\* one before it finds another thread's
ObjIds == 0 .. (kMaxTid - 1)

\* a thread that is in no MutexLock or MutexUnlock: m is the address, op the
\* call, obj the sync object the pointer s refers to
IdleSop == [pc |-> "idle", op |-> "lock", m |-> 1, obj |-> 0]

\* the result of a RestoreStack that returned 0
NoFrames == [ub |-> FALSE, frames |-> << >>]

\* a thread that is in no call that takes a lock: i is the loop variable of
\* ReportRace, k0 and k1 the results of its two calls of RestoreStack
IdleCall == [pc |-> "idle", i |-> 0, k0 |-> NoFrames, k1 |-> NoFrames]

Init ==
  /\ status = [t \in Tids |-> IF t = 0 THEN "Running" ELSE "Invalid"]
  /\ uid = [t \in Tids |-> 0]
  /\ detached = [t \in Tids |-> t = 0]
  /\ thrp = [t \in Tids |-> t = 0]
  /\ tsync = [t \in Tids |-> ZeroClock]
  /\ thread_seq = 1
  /\ epoch = [t \in Tids |-> IF t = 0 THEN 1 ELSE 0]
  /\ fast_synch_epoch = [t \in Tids |-> IF t = 0 THEN 1 ELSE 0]
  /\ clock = [t \in Tids |-> IF t = 0 THEN ClockSet(ZeroClock, 0, 1) ELSE ZeroClock]
  /\ events = [t \in Tids |-> [i \in 0 .. (kTraceSize - 1) |-> ZeroEvent]]
  /\ headers = [t \in Tids |-> [i \in 0 .. (kTraceParts - 1) |-> 0]]
  /\ synctab = [m \in Mutexes |-> [present |-> FALSE, clock |-> ZeroClock]]
  /\ shadow = ZeroCell
  /\ reports = {}
  /\ died = FALSE
  /\ mop = [t \in Tids |-> IdleMop]
  /\ stored = {}
  /\ hist = [t \in Tids |-> {}]
  /\ edges = {}
  /\ unlockAt = [m \in Mutexes |-> [t \in Tids |-> 0]]
  /\ callstack = [t \in Tids |-> IF t = 0 THEN << << >> >> ELSE << >>]
  /\ appended = [t \in Tids |-> IF t = 0 THEN << NoEvent >> ELSE << >>]
  /\ last = NoLast
  /\ report_mtx = NoTid
  /\ thread_mtx = NoTid
  /\ trace_mtx = [t \in Tids |-> NoTid]
  /\ spin = [m \in Mutexes |-> [k \in ObjIds |-> NoTid]]
  /\ dups = [m \in Mutexes |-> << >>]
  /\ sop = [t \in Tids |-> IdleSop]
  /\ call = [t \in Tids |-> IdleCall]
  /\ raced = FALSE

\* The process runs no further: Die() was reached, or a ThreadCreate has used
\* threads[kMaxTid], an element past the end of the array, or a RestoreStack has
\* indexed its stack array outside its bounds (what the process does from then
\* on is undefined), or two threads have operated on one sync clock at a time (a
\* data race on its words, undefined as well)
Halted == died \/ thread_seq > kMaxTid \/ raced \/ \E r \in reports : r.ub

\* a thread that may call into the run-time: it has a live ThreadState and is
\* not inside a MemoryAccess
Live(t) == ~Halted /\ status[t] = "Running" /\ mop[t].pc = "idle"

\* ---------------------------------------------------------------- registry
\* ThreadFree: the context's fields afterwards
ThreadFree(tid) ==
  /\ status' = [status EXCEPT ![tid] = "Invalid"]
  /\ uid' = [uid EXCEPT ![tid] = 0]
  /\ tsync' = [tsync EXCEPT ![tid] = ZeroClock]

\* the release made for every creator but the main thread
CreateReleasesParent(t, tid) == t # 0

\* ThreadCreate: does the creator release into the new context's sync clock?
CreateReleases(t, tid) == tid # 0

\* ThreadCreate(thr, uid, detached), called by thread t; the new tid is thread_seq.
\* There is no bound check on thread_seq: the create that follows kMaxTid
\* creates reads and writes threads[kMaxTid], past the end of the array.  Its
\* CHECK on the status word found there fails (Die) or passes; if it passes, the
\* fields are written outside the array and the caller's clock is released.
ThreadCreate(t, u, d) ==
  LET tid == thread_seq
      rel == CreateReleases(t, tid)
      clk == IF rel THEN ClockSet(clock[t], t, epoch[t]) ELSE clock[t]
  IN
  /\ Live(t)
  /\ \A x \in Tids : status[x] # "Invalid" => uid[x] # u
  /\ thread_seq' = thread_seq + 1
  /\ IF tid >= kMaxTid
     THEN /\ died' \in BOOLEAN
          /\ clock' = IF died' THEN clock ELSE [clock EXCEPT ![t] = clk]
          /\ fast_synch_epoch' =
               IF died' THEN fast_synch_epoch
               ELSE [fast_synch_epoch EXCEPT ![t] = epoch[t]]
          /\ hist' = IF died' THEN hist ELSE [hist EXCEPT ![t] = {}]
          /\ UNCHANGED << status, uid, detached, thrp, tsync, edges >>
     ELSE IF status[tid] # "Invalid"
     THEN /\ died' = TRUE
          /\ UNCHANGED << status, uid, detached, thrp, tsync, clock,
                          fast_synch_epoch, hist, edges >>
     ELSE /\ status' = [status EXCEPT ![tid] = "Created"]
          /\ thrp' = [thrp EXCEPT ![tid] = FALSE]
          /\ uid' = [uid EXCEPT ![tid] = u]
          /\ detached' = [detached EXCEPT ![tid] = d]
          /\ clock' = [clock EXCEPT ![t] = clk]
          /\ fast_synch_epoch' =
               IF rel THEN [fast_synch_epoch EXCEPT ![t] = epoch[t]]
               ELSE fast_synch_epoch
          /\ tsync' = IF rel THEN [tsync EXCEPT ![tid] = ClockRelease(clk, tsync[tid])]
                      ELSE tsync
          /\ hist' = [hist EXCEPT ![t] = {}]
          /\ edges' = edges \cup { [k |-> "create", from |-> t, upto |-> epoch[t],
                                    to |-> tid, at |-> 1] }
          /\ died' = died
  /\ last' = LastCall("ThreadCreate", t, u)
  /\ UNCHANGED << epoch, events, headers, synctab, shadow, reports, mop,
                  stored, unlockAt, callstack,
                  appended >>

\* the clock of a started thread whose own component was not set
StartClockUnset(tid) == ClockAcquire(ZeroClock, tsync[tid])

\* ThreadStart: the clock of the started thread
StartClock(tid) == ClockAcquire(ClockSet(ZeroClock, tid, 1), tsync[tid])

\* ThreadStart(thr, tid), the first call of the created thread
ThreadStart(tid) ==
  /\ ~Halted
  /\ status[tid] = "Created"
  /\ epoch' = [epoch EXCEPT ![tid] = 1]
  /\ fast_synch_epoch' = [fast_synch_epoch EXCEPT ![tid] = 1]
  /\ events' = [events EXCEPT ![tid] = [i \in 0 .. (kTraceSize - 1) |-> ZeroEvent]]
  /\ headers' = [headers EXCEPT ![tid] = [i \in 0 .. (kTraceParts - 1) |-> 0]]
  /\ status' = [status EXCEPT ![tid] = "Running"]
  /\ thrp' = [thrp EXCEPT ![tid] = TRUE]
  /\ clock' = [clock EXCEPT ![tid] = StartClock(tid)]
  /\ mop' = [mop EXCEPT ![tid] = IdleMop]
  /\ hist' = [hist EXCEPT ![tid] = {}]
  /\ callstack' = [callstack EXCEPT ![tid] = << << >> >>]
  /\ appended' = [appended EXCEPT ![tid] = << NoEvent >>]
  /\ last' = NoLast
  /\ UNCHANGED << uid, detached, tsync, thread_seq, synctab, shadow, reports,
                  died, stored, edges, unlockAt >>

\* ThreadFinish that keeps every finished context for a join
FinishFreesNever(t) == FALSE

\* ThreadFinish: is the finishing context freed at once?
FinishFrees(t) == detached[t]

\* ThreadFinish(thr), called by thread t
ThreadFinish(t) ==
  LET clk == ClockSet(clock[t], t, epoch[t]) IN
  /\ Live(t)
  /\ IF FinishFrees(t)
     THEN /\ ThreadFree(t)
          /\ UNCHANGED << clock, fast_synch_epoch >>
     ELSE /\ clock' = [clock EXCEPT ![t] = clk]
          /\ fast_synch_epoch' = [fast_synch_epoch EXCEPT ![t] = epoch[t]]
          /\ tsync' = [tsync EXCEPT ![t] = ClockRelease(clk, tsync[t])]
          /\ status' = [status EXCEPT ![t] = "Finished"]
          /\ uid' = uid
  /\ thrp' = [thrp EXCEPT ![t] = FALSE]
  /\ hist' = [hist EXCEPT ![t] = {}]
  /\ last' = NoLast
  /\ UNCHANGED << detached, thread_seq, epoch, events, headers, synctab, shadow,
                  reports, died, mop, stored, edges, unlockAt, callstack,
                  appended >>

\* the search that takes a context with this uid whatever its status
JoinMatchesAnyStatus(u) == { x \in Tids : uid[x] = u }

\* ThreadJoin's search: the contexts with this uid that are not Invalid
JoinMatches(u) == { x \in Tids : uid[x] = u /\ status[x] # "Invalid" }

\* ThreadJoin that frees the context without acquiring its sync clock
JoinClockNoAcquire(t, tid) == clock[t]

\* ThreadJoin: the clock of the joiner afterwards
JoinClock(t, tid) == ClockAcquire(clock[t], tsync[tid])

\* ThreadJoin(thr, uid), called by thread t
ThreadJoin(t, u) ==
  /\ Live(t)
  /\ last' = LastCall("ThreadJoin", t, u)
  /\ IF JoinMatches(u) = {}
     THEN UNCHANGED << status, uid, tsync, clock, died, hist, edges >>
     ELSE LET tid == CHOOSE x \in JoinMatches(u) : \A y \in JoinMatches(u) : x <= y IN
          IF detached[tid] \/ status[tid] # "Finished"
          THEN /\ died' = TRUE
               /\ UNCHANGED << status, uid, tsync, clock, hist, edges >>
          ELSE /\ clock' = [clock EXCEPT ![t] = JoinClock(t, tid)]
               /\ ThreadFree(tid)
               /\ hist' = [hist EXCEPT ![t] = HistAcquired(hist[t])]
               /\ edges' = edges \cup { [k |-> "join", from |-> tid,
                                         upto |-> epoch[tid], to |-> t,
                                         at |-> epoch[t]] }
               /\ died' = died
  /\ UNCHANGED << detached, thrp, thread_seq, epoch, fast_synch_epoch, events,
                  headers, synctab, shadow, reports, mop, stored, unlockAt,
                  callstack,
                  appended >>

\* ThreadDetach's search: the contexts with this uid, whatever their status
DetachMatches(u) == { x \in Tids : uid[x] = u }

\* ThreadDetach(thr, uid), called by thread t
ThreadDetach(t, u) ==
  /\ Live(t)
  /\ last' = LastCall("ThreadDetach", t, u)
  /\ IF DetachMatches(u) = {}
     THEN UNCHANGED << status, uid, tsync, detached >>
     ELSE LET tid == CHOOSE x \in DetachMatches(u) : \A y \in DetachMatches(u) : x <= y IN
          IF status[tid] = "Invalid"
          THEN UNCHANGED << status, uid, tsync, detached >>
          ELSE IF status[tid] = "Finished"
          THEN ThreadFree(tid) /\ detached' = detached
          ELSE /\ detached' = [detached EXCEPT ![tid] = TRUE]
               /\ UNCHANGED << status, uid, tsync >>
  /\ UNCHANGED << thrp, thread_seq, epoch, fast_synch_epoch, clock, events,
                  headers, synctab, shadow, reports, died, mop, ghosts >>

\* ---------------------------------------------------------------- mutexes
\* MutexLock that stamps the clock but does not acquire the mutex's clock
LockClockNoAcquire(t, m, e) == ClockSet(clock[t], t, e)

\* MutexLock: the caller's clock afterwards, at its new epoch e
LockClock(t, m, e) == ClockAcquire(ClockSet(clock[t], t, e), synctab[m].clock)

\* MutexLock(thr, pc, addr), called by thread t on mutex address m
MutexLock(t, m) ==
  LET e == epoch[t] + 1 IN
  /\ Live(t)
  /\ epoch[t] < MaxEpoch
  /\ epoch' = [epoch EXCEPT ![t] = e]
  /\ headers' = [headers EXCEPT ![t] = TraceHeaders(headers[t], e)]
  /\ events' = [events EXCEPT ![t] = TraceEvents(events[t], e, "Lock", m)]
  /\ synctab' = [synctab EXCEPT ![m].present = TRUE]
  /\ clock' = [clock EXCEPT ![t] = LockClock(t, m, e)]
  /\ hist' = [hist EXCEPT ![t] = HistAcquired(hist[t])]
  /\ edges' = edges \cup { [k |-> "mutex", from |-> u, upto |-> unlockAt[m][u],
                             to |-> t, at |-> e] :
                           u \in { x \in Tids : x # t /\ unlockAt[m][x] > 0 } }
  /\ last' = LastCall("MutexLock", t, m)
  /\ callstack' = [callstack EXCEPT ![t] = Append(@, Open(@))]
  /\ appended' = [appended EXCEPT ![t] = Append(@, [typ |-> "Lock", pc |-> m])]
  /\ UNCHANGED << registry, fast_synch_epoch, shadow, reports, died, mop,
                  stored, unlockAt >>

\* MutexUnlock: the mutex's sync clock afterwards, the caller at its new epoch e
UnlockClock(t, m, e) == ClockRelease(ClockSet(clock[t], t, e), synctab[m].clock)

\* MutexUnlock(thr, pc, addr), called by thread t on mutex address m
MutexUnlock(t, m) ==
  LET e == epoch[t] + 1 IN
  /\ Live(t)
  /\ epoch[t] < MaxEpoch
  /\ epoch' = [epoch EXCEPT ![t] = e]
  /\ headers' = [headers EXCEPT ![t] = TraceHeaders(headers[t], e)]
  /\ events' = [events EXCEPT ![t] = TraceEvents(events[t], e, "Unlock", m)]
  /\ last' = LastCall("MutexUnlock", t, m)
  /\ IF ~synctab[m].present
     THEN /\ died' = TRUE
          /\ UNCHANGED << clock, fast_synch_epoch, synctab, hist, unlockAt >>
     ELSE /\ clock' = [clock EXCEPT ![t] = ClockSet(clock[t], t, e)]
          /\ fast_synch_epoch' = [fast_synch_epoch EXCEPT ![t] = e]
          /\ synctab' = [synctab EXCEPT ![m].clock = UnlockClock(t, m, e)]
          /\ hist' = [hist EXCEPT ![t] = {}]
          /\ unlockAt' = [unlockAt EXCEPT ![m][t] = e]
          /\ died' = died
  /\ callstack' = [callstack EXCEPT ![t] = Append(@, Open(@))]
  /\ appended' = [appended EXCEPT ![t] = Append(@, [typ |-> "Unlock", pc |-> m])]
  /\ UNCHANGED << registry, shadow, reports, mop, stored, edges >>

\* ---------------------------------------------------------------- functions
\* FuncEntry(thr, pc), called by thread t
FuncEntry(t, pc) ==
  LET e == epoch[t] + 1 IN
  /\ Live(t)
  /\ epoch[t] < MaxEpoch
  /\ epoch' = [epoch EXCEPT ![t] = e]
  /\ headers' = [headers EXCEPT ![t] = TraceHeaders(headers[t], e)]
  /\ events' = [events EXCEPT ![t] = TraceEvents(events[t], e, "FuncEnter", pc)]
  /\ callstack' = [callstack EXCEPT ![t] = Append(@, Append(Open(@), pc))]
  /\ appended' = [appended EXCEPT ![t] = Append(@, [typ |-> "FuncEnter", pc |-> pc])]
  /\ last' = LastCall("FuncEntry", t, pc)
  /\ UNCHANGED << registry, fast_synch_epoch, clock, synctab, shadow, reports,
                  died, mop, stored, hist, edges, unlockAt >>

\* FuncExit(thr), called by thread t
FuncExit(t) ==
  LET e == epoch[t] + 1 IN
  /\ Live(t)
  /\ epoch[t] < MaxEpoch
  /\ epoch' = [epoch EXCEPT ![t] = e]
  /\ headers' = [headers EXCEPT ![t] = TraceHeaders(headers[t], e)]
  /\ events' = [events EXCEPT ![t] = TraceEvents(events[t], e, "FuncExit", 0)]
  /\ callstack' = [callstack EXCEPT ![t] = Append(@, Left(Open(@)))]
  /\ appended' = [appended EXCEPT ![t] = Append(@, [typ |-> "FuncExit", pc |-> 0])]
  /\ last' = LastCall("FuncExit", t, 0)
  /\ UNCHANGED << registry, fast_synch_epoch, clock, synctab, shadow, reports,
                  died, mop, stored, hist, edges, unlockAt >>

\* ---------------------------------------------------------------- MemoryAccess
\* the test with the slot stamped at the synch epoch itself left out
SameSynchEpochStrict(s, synch_epoch) == s.epoch > synch_epoch

\* MemoryAccess1: "same thread, same synch epoch" test on a slot
SameSynchEpoch(s, synch_epoch) == s.epoch >= synch_epoch

\* "happens before?" answered yes for every slot
HappensBeforeAlways(clk, s) == TRUE

\* "happens before?" without the equal-epoch case
HappensBeforeStrict(clk, s) == ClockGet(clk, s.tid) > s.epoch

\* MemoryAccess1: "happens before?" test of slot s against the caller's clock
HappensBefore(clk, s) == ClockGet(clk, s.tid) >= s.epoch

\* the range test with the touching ranges left out
IntersectStrict(s0, s) == Min(s0.addr1, s.addr1) > Max(s0.addr0, s.addr0)

\* MemoryAccess1: do the byte ranges intersect?
Intersect(s0, s) == Min(s0.addr1, s.addr1) >= Max(s0.addr0, s.addr0)

\* the operand that clears the slot whether or not s0 has been stored
StoreOperandZero(replaced, s0) == Zero

\* the operand that stores s0 again although an earlier slot already took it
StoreOperandAlways(replaced, s0) == s0

\* MemoryAccess1: the operand of the StoreShadow that replaces a slot,
\* `replaced ? 0ull : s0.raw`
StoreOperand(replaced, s0) == IF replaced THEN Zero ELSE s0

\* MemoryAccess1 on the loaded slot value s.  The result holds the return value
\* (ret), whether a StoreShadow is made (wr) and its operand (val), and the
\* reference parameters replaced and racy_access afterwards.
MemoryAccess1(clk, tid, synch_epoch, s0, s, is_write, replaced, racy_access) ==
  LET keep == [ret |-> FALSE, wr |-> FALSE, val |-> Zero,
               replaced |-> replaced, racy |-> racy_access]
      repl == [keep EXCEPT !.wr = TRUE, !.val = StoreOperand(replaced, s0),
                           !.replaced = TRUE]
      race == [keep EXCEPT !.racy = s]
  IN
  IF s = Zero THEN
    IF ~replaced
    THEN [keep EXCEPT !.wr = TRUE, !.val = s0, !.replaced = TRUE]
    ELSE keep
  ELSE IF s0.addr0 = s.addr0 /\ s0.addr1 = s.addr1 THEN
    IF s.tid = tid THEN
      IF SameSynchEpoch(s, synch_epoch) THEN
        IF s.write \/ ~is_write THEN [keep EXCEPT !.ret = TRUE] ELSE repl
      ELSE
        IF ~s.write \/ is_write THEN repl ELSE keep
    ELSE
      IF HappensBefore(clk, s) THEN repl
      ELSE IF ~s.write /\ ~is_write THEN keep
      ELSE race
  ELSE IF Intersect(s0, s) THEN
    IF s.tid = tid THEN keep
    ELSE IF HappensBefore(clk, s) THEN keep
    ELSE IF ~s.write /\ ~is_write THEN keep
    ELSE race
  ELSE keep

\* the scan loop that goes on to the next slot whatever MemoryAccess1 returns
RECURSIVE ScanLoopNoReturn(_, _, _, _, _, _, _)
ScanLoopNoReturn(clk, tid, synch_epoch, s0, off, i, st) ==
  IF i >= kShadowCnt THEN st
  ELSE LET sp == (i + off) % kShadowCnt
           r == MemoryAccess1(clk, tid, synch_epoch, s0, st.cell[sp], s0.write,
                              st.replaced, st.racy)
           cell == IF r.wr THEN [st.cell EXCEPT ![sp] = r.val] ELSE st.cell
           nx == [cell |-> cell, replaced |-> r.replaced, racy |-> r.racy,
                  ret |-> r.ret]
       IN ScanLoopNoReturn(clk, tid, synch_epoch, s0, off, i + 1, nx)

\* The scan loop of MemoryAccess from iteration i on, run without interruption.
\* st holds the cell and the locals replaced, racy, ret (an early return).
RECURSIVE ScanLoop(_, _, _, _, _, _, _)
ScanLoop(clk, tid, synch_epoch, s0, off, i, st) ==
  IF i >= kShadowCnt THEN st
  ELSE LET sp == (i + off) % kShadowCnt
           r == MemoryAccess1(clk, tid, synch_epoch, s0, st.cell[sp], s0.write,
                              st.replaced, st.racy)
           cell == IF r.wr THEN [st.cell EXCEPT ![sp] = r.val] ELSE st.cell
           nx == [cell |-> cell, replaced |-> r.replaced, racy |-> r.racy,
                  ret |-> r.ret]
       IN IF r.ret THEN nx
          ELSE ScanLoop(clk, tid, synch_epoch, s0, off, i + 1, nx)

\* MemoryAccess after the scan: is ReportRace called?
ReportsRace(racy_access) == racy_access # Zero

\* ReportMop with the size taken as the distance of the two bounds
ReportMopShort(s) ==
  [tid |-> s.tid, addr |-> s.addr0, size |-> s.addr1 - s.addr0,
   write |-> s.write]

\* ReportRace: one ReportMop of the report
ReportMop(s) ==
  [tid |-> s.tid, addr |-> s.addr0, size |-> s.addr1 - s.addr0 + 1,
   write |-> s.write]

\* an element of the local array `stack` of ReportRace that was never written
Uninit == -1

\* the values such an element may hold
Garbage == 0 .. (MaxPc + 1)

\* RestoreStack: ring entries 0 .. n of the trace ring ev are replayed, from
\* entry i on, into r: the array stack, the index pos (a u64: -1 stands for the
\* value 0 - 1 wraps to) and ub, set when stack is indexed outside its bounds
RECURSIVE Replay(_, _, _, _)
Replay(ev, n, i, r) ==
  IF i > n \/ r.ub THEN r
  ELSE LET typ == ev[i].typ
           pc == ev[i].pc
           inside == r.pos >= 0 /\ r.pos < kStackSize
       IN
       IF typ = "Mop" THEN
         IF inside THEN Replay(ev, n, i + 1, [r EXCEPT !.stack[r.pos] = pc])
         ELSE [r EXCEPT !.ub = TRUE]
       ELSE IF typ = "FuncEnter" THEN
         IF inside
         THEN Replay(ev, n, i + 1, [r EXCEPT !.stack[r.pos] = pc, !.pos = r.pos + 1])
         ELSE [r EXCEPT !.ub = TRUE]
       ELSE IF typ = "FuncExit" THEN Replay(ev, n, i + 1, [r EXCEPT !.pos = r.pos - 1])
       ELSE Replay(ev, n, i + 1, r)

\* RestoreStack: the loop that turns stack[0 .. p-1] around, from iteration i on
\* (i runs up to p / 2 inclusive)
RECURSIVE Reverse(_, _, _)
Reverse(stack, p, i) ==
  IF i > p \div 2 THEN stack
  ELSE Reverse([stack EXCEPT ![i] = stack[p - i - 1], ![p - i - 1] = stack[i]],
               p, i + 1)

\* RestoreStack: has the partition of epoch e been overwritten?
Overwritten(e, epoch0) == e < epoch0

\* RestoreStack(tid, epoch, stack, n) with the registry st, the trace rings evs
\* and headers hds: the frames returned (none for the return value 0), or ub
RestoreStack(st, evs, hds, tid, e) ==
  LET none == [ub |-> FALSE, frames |-> << >>]
      part == (e \div PartSize) % kTraceParts
      r == Replay(evs[tid], e % PartSize, 0,
                  [stack |-> [k \in 0 .. (kStackSize - 1) |-> Uninit],
                   pos |-> 0, ub |-> FALSE])
      p == r.pos + 1
  IN
  IF st[tid] # "Running" THEN none
  ELSE IF Overwritten(e, hds[tid][part]) THEN none
  ELSE IF r.ub \/ p <= 0 \/ p > kStackSize THEN [ub |-> TRUE, frames |-> << >>]
  ELSE [ub |-> FALSE, frames |-> [k \in 1 .. p |-> Reverse(r.stack, p, 0)[k - 1]]]

\* the frames handed on for the result k of RestoreStack: an element of stack
\* that was never written holds any value
Stacks(k) ==
  { [k EXCEPT !.frames = [j \in DOMAIN k.frames |->
                            IF k.frames[j] = Uninit THEN g ELSE k.frames[j]]] :
    g \in Garbage }

\* ReportRace(thr, addr, s0, s1): the report handed on, k0 and k1 the results of
\* RestoreStack for s0 and s1; clk is the caller's clock component for s1.tid
\* when the report is made.  ub: a RestoreStack has indexed stack outside its
\* bounds, and what is handed on, and what the process does next, is undefined.
ReportRace(clk, s0, s1, k0, k1) ==
  [mop0 |-> ReportMop(s0), mop1 |-> ReportMop(s1), s0 |-> s0, s1 |-> s1,
   clk |-> ClockGet(clk, s1.tid),
   stack0 |-> IF k0.ub \/ k1.ub THEN << >> ELSE k0.frames,
   stack1 |-> IF k0.ub \/ k1.ub THEN << >> ELSE k1.frames,
   ub |-> k0.ub \/ k1.ub]

\* the reports ReportRace may hand on in the state st, evs, hds
RaceReports(clk, s0, s1, st, evs, hds) ==
  { ReportRace(clk, s0, s1, k0, k1) :
      k0 \in Stacks(RestoreStack(st, evs, hds, s0.tid, s0.epoch)),
      k1 \in Stacks(RestoreStack(st, evs, hds, s1.tid, s1.epoch)) }

\* MemoryAccess after the scan: the slot of the fallback store
FallbackSlot(e) == e % kShadowCnt

\* the cell at return when the early return is taken for a scan that stored nothing
CellAtReturnNoRet(st, s0) ==
  IF st.replaced THEN st.cell
  ELSE [st.cell EXCEPT ![FallbackSlot(s0.epoch)] = s0]

\* MemoryAccess after a scan that ended in state st: the cell at return
CellAtReturn(st, s0) ==
  IF st.ret \/ st.replaced THEN st.cell
  ELSE [st.cell EXCEPT ![FallbackSlot(s0.epoch)] = s0]

\* the descriptors a scan that turned cell c0 into c1 has stored
StoredBy(c0, c1, s0) == IF \E i \in Slots : c1[i] = s0 /\ c0[i] # s0 THEN {s0} ELSE {}

\* MemoryAccess(thr, pc, addr, size, is_write), called by thread t, as one step
MemoryAccess(t, pc, a, w) ==
  LET e == epoch[t] + 1
      s0 == MakeShadow(t, e, a, w)
      st == ScanLoop(clock[t], t, fast_synch_epoch[t], s0, ScanOff(a), 0,
                     [cell |-> shadow, replaced |-> FALSE, racy |-> Zero,
                      ret |-> FALSE])
      rep == ~st.ret /\ ReportsRace(st.racy)
  IN
  /\ Live(t)
  /\ epoch[t] < MaxEpoch
  /\ epoch' = [epoch EXCEPT ![t] = e]
  /\ headers' = [headers EXCEPT ![t] = TraceHeaders(headers[t], e)]
  /\ events' = [events EXCEPT ![t] = TraceEvents(events[t], e, "Mop", pc)]
  /\ shadow' = CellAtReturn(st, s0)
  /\ IF rep
     THEN \E r \in RaceReports(clock[t], s0, st.racy, status, events', headers') :
            reports' = reports \cup { r }
     ELSE reports' = reports
  /\ stored' = stored \cup StoredBy(shadow, shadow', s0)
  /\ hist' = [hist EXCEPT ![t] = hist[t] \cup
                { [r |-> << s0.addr0, s0.addr1 >>, w |-> w, acq |-> FALSE] }]
  /\ last' = [op |-> "MemoryAccess", t |-> t, arg |-> 0, a |-> a, s0 |-> s0,
              pre |-> shadow, had |-> hist[t], rep |-> rep]
  /\ callstack' = [callstack EXCEPT ![t] = Append(@, Open(@))]
  /\ appended' = [appended EXCEPT ![t] = Append(@, [typ |-> "Mop", pc |-> pc])]
  /\ UNCHANGED << registry, fast_synch_epoch, clock, synctab, died, mop, edges,
                  unlockAt >>

\* ---------------------------------------------------------------- MemoryAccess, split
\* The same MemoryAccess as a sequence of steps, one per relaxed load or store of
\* a shadow slot, so that the scans of several threads interleave.

\* MemoryAccess up to the scan loop: epoch, trace event, s0 and the locals
MA_Begin(t, pc, a, w) ==
  LET e == epoch[t] + 1
      s0 == MakeShadow(t, e, a, w)
  IN
  /\ Live(t)
  /\ epoch[t] < MaxEpoch
  /\ epoch' = [epoch EXCEPT ![t] = e]
  /\ headers' = [headers EXCEPT ![t] = TraceHeaders(headers[t], e)]
  /\ events' = [events EXCEPT ![t] = TraceEvents(events[t], e, "Mop", pc)]
  /\ mop' = [mop EXCEPT ![t] = [IdleMop EXCEPT !.pc = "load", !.s0 = s0,
                                               !.off = ScanOff(a)]]
  /\ hist' = [hist EXCEPT ![t] = hist[t] \cup
                { [r |-> << s0.addr0, s0.addr1 >>, w |-> w, acq |-> FALSE] }]
  /\ last' = NoLast
  /\ callstack' = [callstack EXCEPT ![t] = Append(@, Open(@))]
  /\ appended' = [appended EXCEPT ![t] = Append(@, [typ |-> "Mop", pc |-> pc])]
  /\ UNCHANGED << registry, fast_synch_epoch, clock, synctab, shadow, reports,
                  died, stored, edges, unlockAt >>

\* the locals after iteration i of the scan loop is over
NextSlot(m) ==
  [m EXCEPT !.i = m.i + 1,
            !.pc = IF m.i + 1 >= kShadowCnt THEN "fin" ELSE "load"]

\* MemoryAccess1 up to its StoreShadow or return: LoadShadow and the decision
MA_Load(t) ==
  LET m == mop[t]
      sp == (m.i + m.off) % kShadowCnt
      r == MemoryAccess1(clock[t], t, fast_synch_epoch[t], m.s0, shadow[sp],
                         m.s0.write, m.replaced, m.racy)
      m1 == [m EXCEPT !.replaced = r.replaced, !.racy = r.racy, !.val = r.val]
  IN
  /\ ~Halted
  /\ m.pc = "load"
  /\ mop' = [mop EXCEPT ![t] = IF r.wr THEN [m1 EXCEPT !.pc = "store"]
                                ELSE IF r.ret THEN IdleMop
                                ELSE NextSlot(m1)]
  /\ last' = NoLast
  /\ UNCHANGED << registry, epoch, fast_synch_epoch, clock, events, headers,
                  synctab, shadow, reports, died, ghosts >>

\* the StoreShadow of MemoryAccess1
MA_Store(t) ==
  LET m == mop[t]
      sp == (m.i + m.off) % kShadowCnt
  IN
  /\ ~Halted
  /\ m.pc = "store"
  /\ shadow' = [shadow EXCEPT ![sp] = m.val]
  /\ stored' = IF m.val = Zero THEN stored ELSE stored \cup { m.val }
  /\ mop' = [mop EXCEPT ![t] = NextSlot(m)]
  /\ last' = NoLast
  /\ UNCHANGED << registry, epoch, fast_synch_epoch, clock, events, headers,
                  synctab, reports, died, hist, edges, unlockAt, callstack,
                  appended >>

\* MemoryAccess after the scan loop: ReportRace and the fallback store
MA_Fin(t) ==
  LET m == mop[t] IN
  /\ ~Halted
  /\ m.pc = "fin"
  /\ IF ReportsRace(m.racy)
     THEN \E r \in RaceReports(clock[t], m.s0, m.racy, status, events, headers) :
            reports' = reports \cup { r }
     ELSE reports' = reports
  /\ shadow' = IF m.replaced THEN shadow
               ELSE [shadow EXCEPT ![FallbackSlot(m.s0.epoch)] = m.s0]
  /\ stored' = IF m.replaced THEN stored ELSE stored \cup { m.s0 }
  /\ mop' = [mop EXCEPT ![t] = IdleMop]
  /\ last' = NoLast
  /\ UNCHANGED << registry, epoch, fast_synch_epoch, clock, events, headers,
                  synctab, died, hist, edges, unlockAt, callstack,
                  appended >>

\* ---------------------------------------------------------------- MutexLock/MutexUnlock, split
\* The two calls as sequences of steps, one per call into the sync table, the
\* clock or the spinlock, so that the calls of several threads interleave.  The
\* histories edges and unlockAt are kept by the one-step calls only.

\* thread t is in no call
Idle(t) == mop[t].pc = "idle" /\ sop[t].pc = "idle" /\ call[t].pc = "idle"

\* SyncTab: the sync objects at address m, 0 the one inserted first
Objs(m) == IF synctab[m].present THEN 0 .. Len(dups[m]) ELSE {}

\* the clock of sync object k at address m
ObjClock(m, k) == IF k = 0 THEN synctab[m].clock ELSE dups[m][k]

\* another thread holds a pointer to the sync object of t and has its clock
\* operation still to do
ClockShared(t) ==
  \E u \in Tids : /\ u # t
                  /\ sop[u].pc = "clock"
                  /\ sop[u].m = sop[t].m
                  /\ sop[u].obj = sop[t].obj

\* the clock operation of t runs while another thread's is under way on the
\* same sync clock, and one of the two is a release, which writes the clock
ClockRaced(t) ==
  \E u \in Tids : /\ u # t
                  /\ sop[u].pc = "clock"
                  /\ sop[u].m = sop[t].m
                  /\ sop[u].obj = sop[t].obj
                  /\ "unlock" \in { sop[t].op, sop[u].op }

\* MutexLock up to the table lookup: epoch and trace event
ML_Begin(t, m) ==
  LET e == epoch[t] + 1 IN
  /\ Live(t)
  /\ Idle(t)
  /\ epoch[t] < MaxEpoch
  /\ epoch' = [epoch EXCEPT ![t] = e]
  /\ headers' = [headers EXCEPT ![t] = TraceHeaders(headers[t], e)]
  /\ events' = [events EXCEPT ![t] = TraceEvents(events[t], e, "Lock", m)]
  /\ sop' = [sop EXCEPT ![t] = [IdleSop EXCEPT !.pc = "get", !.op = "lock", !.m = m]]
  /\ callstack' = [callstack EXCEPT ![t] = Append(@, Open(@))]
  /\ appended' = [appended EXCEPT ![t] = Append(@, [typ |-> "Lock", pc |-> m])]
  /\ last' = NoLast
  /\ UNCHANGED << registry, fast_synch_epoch, clock, synctab, shadow, reports,
                  died, mop, stored, hist, edges, unlockAt, report_mtx,
                  thread_mtx, trace_mtx, spin, dups, call, raced >>

\* MutexUnlock up to the table lookup: epoch and trace event
MU_Begin(t, m) ==
  LET e == epoch[t] + 1 IN
  /\ Live(t)
  /\ Idle(t)
  /\ epoch[t] < MaxEpoch
  /\ epoch' = [epoch EXCEPT ![t] = e]
  /\ headers' = [headers EXCEPT ![t] = TraceHeaders(headers[t], e)]
  /\ events' = [events EXCEPT ![t] = TraceEvents(events[t], e, "Unlock", m)]
  /\ sop' = [sop EXCEPT ![t] = [IdleSop EXCEPT !.pc = "get", !.op = "unlock", !.m = m]]
  /\ callstack' = [callstack EXCEPT ![t] = Append(@, Open(@))]
  /\ appended' = [appended EXCEPT ![t] = Append(@, [typ |-> "Unlock", pc |-> m])]
  /\ last' = NoLast
  /\ UNCHANGED << registry, fast_synch_epoch, clock, synctab, shadow, reports,
                  died, mop, stored, hist, edges, unlockAt, report_mtx,
                  thread_mtx, trace_mtx, spin, dups, call, raced >>

\* SyncTab::GetAndLockIfExists found sync object k: the caller waits for its
\* spinlock and returns holding it.  Which of several objects at one address is
\* found is not fixed.
GetAndLock(t, k) ==
  /\ spin[sop[t].m][k] = NoTid
  /\ spin' = [spin EXCEPT ![sop[t].m][k] = t]
  /\ sop' = [sop EXCEPT ![t].pc = "clock", ![t].obj = k]

\* MutexLock: GetAndLockIfExists, null for an address with no sync object
ML_Get(t) ==
  LET s == sop[t] IN
  /\ ~Halted
  /\ s.pc = "get"
  /\ s.op = "lock"
  /\ IF Objs(s.m) = {}
     THEN sop' = [sop EXCEPT ![t].pc = "create"] /\ spin' = spin
     ELSE \E k \in Objs(s.m) : GetAndLock(t, k)
  /\ last' = NoLast
  /\ UNCHANGED << registry, epoch, fast_synch_epoch, clock, events, headers,
                  synctab, shadow, reports, died, mop, ghosts, report_mtx,
                  thread_mtx, trace_mtx, dups, call, raced >>

\* MutexLock for an address with no sync object: `new MutexVar` and insert.  The
\* new object's spinlock is free, and insert does not take it.
ML_Create(t) ==
  LET s == sop[t]
      k == IF synctab[s.m].present THEN Len(dups[s.m]) + 1 ELSE 0
  IN
  /\ ~Halted
  /\ s.pc = "create"
  /\ synctab' = IF k = 0 THEN [synctab EXCEPT ![s.m].present = TRUE] ELSE synctab
  /\ dups' = IF k = 0 THEN dups ELSE [dups EXCEPT ![s.m] = Append(@, ZeroClock)]
  /\ sop' = [sop EXCEPT ![t].pc = "clock", ![t].obj = k]
  /\ last' = NoLast
  /\ UNCHANGED << registry, epoch, fast_synch_epoch, clock, events, headers,
                  shadow, reports, died, mop, ghosts, report_mtx, thread_mtx,
                  trace_mtx, spin, call, raced >>

\* MutexLock: clock.set and clock.acquire on the sync object's clock
ML_Acquire(t) ==
  LET s == sop[t] IN
  /\ ~Halted
  /\ s.pc = "clock"
  /\ s.op = "lock"
  /\ clock' = [clock EXCEPT ![t] =
                 ClockAcquire(ClockSet(clock[t], t, epoch[t]), ObjClock(s.m, s.obj))]
  /\ raced' = ClockRaced(t)
  /\ hist' = [hist EXCEPT ![t] = HistAcquired(hist[t])]
  /\ sop' = [sop EXCEPT ![t].pc = "unlock"]
  /\ last' = NoLast
  /\ UNCHANGED << registry, epoch, fast_synch_epoch, events, headers, synctab,
                  shadow, reports, died, mop, stored, edges, unlockAt,
                  callstack, appended, report_mtx, thread_mtx, trace_mtx, spin,
                  dups, call >>

\* MutexUnlock: GetAndLockIfExists and the CHECK on its result
MU_Get(t) ==
  LET s == sop[t] IN
  /\ ~Halted
  /\ s.pc = "get"
  /\ s.op = "unlock"
  /\ IF Objs(s.m) = {}
     THEN died' = TRUE /\ UNCHANGED << sop, spin >>
     ELSE died' = died /\ \E k \in Objs(s.m) : GetAndLock(t, k)
  /\ last' = NoLast
  /\ UNCHANGED << registry, epoch, fast_synch_epoch, clock, events, headers,
                  synctab, shadow, reports, mop, ghosts, report_mtx, thread_mtx,
                  trace_mtx, dups, call, raced >>

\* MutexUnlock: clock.set, fast_synch_epoch and clock.release into the sync
\* object's clock
MU_Release(t) ==
  LET s == sop[t]
      clk == ClockSet(clock[t], t, epoch[t])
      rel == ClockRelease(clk, ObjClock(s.m, s.obj))
  IN
  /\ ~Halted
  /\ s.pc = "clock"
  /\ s.op = "unlock"
  /\ clock' = [clock EXCEPT ![t] = clk]
  /\ fast_synch_epoch' = [fast_synch_epoch EXCEPT ![t] = epoch[t]]
  /\ synctab' = IF s.obj = 0 THEN [synctab EXCEPT ![s.m].clock = rel] ELSE synctab
  /\ dups' = IF s.obj = 0 THEN dups ELSE [dups EXCEPT ![s.m][s.obj] = rel]
  /\ raced' = ClockRaced(t)
  /\ hist' = [hist EXCEPT ![t] = {}]
  /\ sop' = [sop EXCEPT ![t].pc = "unlock"]
  /\ last' = NoLast
  /\ UNCHANGED << registry, epoch, events, headers, shadow, reports, died, mop,
                  stored, edges, unlockAt, callstack, appended, report_mtx,
                  thread_mtx, trace_mtx, spin, call >>

\* `m->mtx.Unlock()`, the last statement of both calls: the spinlock is free
\* afterwards, whoever held it
SpinUnlock(t) ==
  LET s == sop[t] IN
  /\ ~Halted
  /\ s.pc = "unlock"
  /\ spin' = [spin EXCEPT ![s.m][s.obj] = NoTid]
  /\ sop' = [sop EXCEPT ![t] = IdleSop]
  /\ last' = LastCall(IF s.op = "lock" THEN "MutexLock" ELSE "MutexUnlock", t, s.m)
  /\ UNCHANGED << registry, epoch, fast_synch_epoch, clock, events, headers,
                  synctab, shadow, reports, died, mop, ghosts, report_mtx,
                  thread_mtx, trace_mtx, dups, call, raced >>

\* ---------------------------------------------------------------- calls that take a lock, split
\* The calls that take report_mtx, thread_mtx or a trace mutex as sequences of
\* steps, one per lock taken or released, so that a thread can be seen waiting
\* for a lock and holding one.

\* A thread-registry call is entered: its first statement (ThreadStart: the
\* first after the reset of the ThreadState) waits for thread_mtx
TR_Enter(t) ==
  /\ ~Halted
  /\ Idle(t)
  /\ status[t] \in { "Created", "Running" }
  /\ call' = [call EXCEPT ![t].pc = "registry"]
  /\ last' = NoLast
  /\ UNCHANGED << registry, epoch, fast_synch_epoch, clock, events, headers,
                  synctab, shadow, reports, died, mop, ghosts, report_mtx,
                  thread_mtx, trace_mtx, spin, dups, sop, raced >>

\* `Lock l(&ctx->thread_mtx)` of a registry call: thread t has waited for
\* thread_mtx and holds it through the body of the call
TR_Lock(t) ==
  /\ call[t].pc = "registry"
  /\ thread_mtx = NoTid
  /\ thread_mtx' = t
  /\ call' = [call EXCEPT ![t].pc = "unlock"]
  /\ UNCHANGED << report_mtx, trace_mtx, spin, dups, sop, raced >>

\* the end of a registry call: the destructor of `Lock l` releases thread_mtx
TR_Unlock(t) ==
  /\ ~Halted
  /\ call[t].pc = "unlock"
  /\ thread_mtx' = NoTid
  /\ call' = [call EXCEPT ![t] = IdleCall]
  /\ last' = NoLast
  /\ UNCHANGED << registry, epoch, fast_synch_epoch, clock, events, headers,
                  synctab, shadow, reports, died, mop, ghosts, report_mtx,
                  trace_mtx, spin, dups, sop, raced >>

\* TraceAddEvent: does the event stamped e start a partition (TraceSwitch)?
Switches(e) == e % PartSize = 0

\* A call whose event starts a partition has incremented the epoch and entered
\* TraceSwitch, which waits for the caller's trace mutex
TS_Enter(t) ==
  /\ Live(t)
  /\ Idle(t)
  /\ epoch[t] < MaxEpoch
  /\ Switches(epoch[t] + 1)
  /\ call' = [call EXCEPT ![t].pc = "switch"]
  /\ last' = NoLast
  /\ UNCHANGED << registry, epoch, fast_synch_epoch, clock, events, headers,
                  synctab, shadow, reports, died, mop, ghosts, report_mtx,
                  thread_mtx, trace_mtx, spin, dups, sop, raced >>

\* TraceSwitch: `Lock l(thr->trace.mtx)`
TS_Lock(t) ==
  /\ ~Halted
  /\ call[t].pc = "switch"
  /\ trace_mtx[t] = NoTid
  /\ trace_mtx' = [trace_mtx EXCEPT ![t] = t]
  /\ call' = [call EXCEPT ![t].pc = "switched"]
  /\ last' = NoLast
  /\ UNCHANGED << registry, epoch, fast_synch_epoch, clock, events, headers,
                  synctab, shadow, reports, died, mop, ghosts, report_mtx,
                  thread_mtx, spin, dups, sop, raced >>

\* The first step of a call that records an event, stamped e: either the event
\* starts no partition and no lock is touched, or the caller is in TraceSwitch
\* with its trace mutex, sets the header and releases the mutex
TS_Unlock(t, e) ==
  /\ IF Switches(e)
     THEN /\ call[t].pc = "switched"
          /\ trace_mtx' = [trace_mtx EXCEPT ![t] = NoTid]
          /\ call' = [call EXCEPT ![t] = IdleCall]
     ELSE /\ Idle(t)
          /\ UNCHANGED << trace_mtx, call >>
  /\ UNCHANGED << report_mtx, thread_mtx, spin, dups, sop, raced >>

\* ReportRace: `Lock l(&ctx->report_mtx)`, taken by a MemoryAccess whose scan
\* has found a racy slot
RR_Lock(t) ==
  /\ ~Halted
  /\ mop[t].pc = "fin"
  /\ ReportsRace(mop[t].racy)
  /\ call[t].pc = "idle"
  /\ report_mtx = NoTid
  /\ report_mtx' = t
  /\ call' = [call EXCEPT ![t] = [IdleCall EXCEPT !.pc = "rs_thread"]]
  /\ last' = NoLast
  /\ UNCHANGED << registry, epoch, fast_synch_epoch, clock, events, headers,
                  synctab, shadow, reports, died, mop, ghosts, thread_mtx,
                  trace_mtx, spin, dups, sop, raced >>

\* ReportRace: the descriptor whose stack iteration i restores
ReportShadow(t) == IF call[t].i = 0 THEN mop[t].s0 ELSE mop[t].racy

\* ReportRace after RestoreStack has returned k in iteration i: the next
\* iteration, or the rest of the report
Restored(c, k) ==
  IF c.i = 0 THEN [c EXCEPT !.pc = "rs_thread", !.i = 1, !.k0 = k]
  ELSE [c EXCEPT !.pc = "report", !.k1 = k]

\* RestoreStack: `Lock l0(&ctx->thread_mtx)`
RS_Lock0(t) ==
  /\ ~Halted
  /\ call[t].pc = "rs_thread"
  /\ thread_mtx = NoTid
  /\ thread_mtx' = t
  /\ call' = [call EXCEPT ![t].pc = "rs_status"]
  /\ last' = NoLast
  /\ UNCHANGED << registry, epoch, fast_synch_epoch, clock, events, headers,
                  synctab, shadow, reports, died, mop, ghosts, report_mtx,
                  trace_mtx, spin, dups, sop, raced >>

\* RestoreStack: the status test; a thread that is not running gives 0, and the
\* return releases thread_mtx
RS_Status(t) ==
  /\ ~Halted
  /\ call[t].pc = "rs_status"
  /\ IF status[ReportShadow(t).tid] # "Running"
     THEN /\ thread_mtx' = NoTid
          /\ call' = [call EXCEPT ![t] = Restored(@, NoFrames)]
     ELSE /\ thread_mtx' = thread_mtx
          /\ call' = [call EXCEPT ![t].pc = "rs_trace"]
  /\ last' = NoLast
  /\ UNCHANGED << registry, epoch, fast_synch_epoch, clock, events, headers,
                  synctab, shadow, reports, died, mop, ghosts, report_mtx,
                  trace_mtx, spin, dups, sop, raced >>

\* RestoreStack: `Lock l(thr->trace.mtx)`, the trace mutex of the thread whose
\* stack is restored
RS_Lock1(t) ==
  LET tid == ReportShadow(t).tid IN
  /\ ~Halted
  /\ call[t].pc = "rs_trace"
  /\ trace_mtx[tid] = NoTid
  /\ trace_mtx' = [trace_mtx EXCEPT ![tid] = t]
  /\ call' = [call EXCEPT ![t].pc = "rs_replay"]
  /\ last' = NoLast
  /\ UNCHANGED << registry, epoch, fast_synch_epoch, clock, events, headers,
                  synctab, shadow, reports, died, mop, ghosts, report_mtx,
                  thread_mtx, spin, dups, sop, raced >>

\* RestoreStack from the header test to the return, which releases both
\* mutexes.  A replay that indexes stack outside its bounds is undefined: it is
\* recorded as a report marked ub, and the call, with its locks, goes no further.
RS_Replay(t) ==
  LET s == ReportShadow(t)
      k == RestoreStack(status, events, headers, s.tid, s.epoch)
  IN
  /\ ~Halted
  /\ call[t].pc = "rs_replay"
  /\ IF k.ub
     THEN /\ reports' = reports \cup { ReportRace(clock[t], mop[t].s0, mop[t].racy, k, k) }
          /\ UNCHANGED << thread_mtx, trace_mtx, call >>
     ELSE /\ reports' = reports
          /\ thread_mtx' = NoTid
          /\ trace_mtx' = [trace_mtx EXCEPT ![s.tid] = NoTid]
          /\ call' = [call EXCEPT ![t] = Restored(@, k)]
  /\ last' = NoLast
  /\ UNCHANGED << registry, epoch, fast_synch_epoch, clock, events, headers,
                  synctab, shadow, died, mop, ghosts, report_mtx, spin, dups,
                  sop, raced >>

\* ReportRace after its loop, and MemoryAccess after ReportRace: the report is
\* handed on, report_mtx released, and the fallback store made
RR_Report(t) ==
  LET m == mop[t] IN
  /\ ~Halted
  /\ call[t].pc = "report"
  /\ \E k0 \in Stacks(call[t].k0), k1 \in Stacks(call[t].k1) :
       reports' = reports \cup { ReportRace(clock[t], m.s0, m.racy, k0, k1) }
  /\ report_mtx' = NoTid
  /\ call' = [call EXCEPT ![t] = IdleCall]
  /\ shadow' = IF m.replaced THEN shadow
               ELSE [shadow EXCEPT ![FallbackSlot(m.s0.epoch)] = m.s0]
  /\ stored' = IF m.replaced THEN stored ELSE stored \cup { m.s0 }
  /\ mop' = [mop EXCEPT ![t] = IdleMop]
  /\ last' = NoLast
  /\ UNCHANGED << registry, epoch, fast_synch_epoch, clock, events, headers,
                  synctab, died, hist, edges, unlockAt, callstack, appended,
                  thread_mtx, trace_mtx, spin, dups, sop, raced >>

\* ---------------------------------------------------------------- specifications
\* Every handler, each as one step.
Next ==
  \/ \E t \in Tids, u \in Uids, d \in BOOLEAN : ThreadCreate(t, u, d) /\ UNCHANGED locks
  \/ \E t \in Tids : ThreadStart(t) /\ UNCHANGED locks
  \/ \E t \in Tids : ThreadFinish(t) /\ UNCHANGED locks
  \/ \E t \in Tids, u \in Uids : ThreadJoin(t, u) /\ UNCHANGED locks
  \/ \E t \in Tids, u \in Uids : ThreadDetach(t, u) /\ UNCHANGED locks
  \/ \E t \in Tids, m \in Mutexes : MutexLock(t, m) /\ UNCHANGED locks
  \/ \E t \in Tids, m \in Mutexes : MutexUnlock(t, m) /\ UNCHANGED locks
  \/ \E t \in Tids, pc \in PCs : FuncEntry(t, pc) /\ UNCHANGED locks
  \/ \E t \in Tids : FuncExit(t) /\ UNCHANGED locks
  \/ \E t \in Tids, pc \in PCs, a \in Accesses, w \in BOOLEAN : MemoryAccess(t, pc, a, w)
       /\ UNCHANGED locks

Spec == Init /\ [][Next]_vars

\* The thread registry alone: every sequence of the five thread calls.
NextLife ==
  \/ \E t \in Tids, u \in Uids, d \in BOOLEAN : ThreadCreate(t, u, d) /\ UNCHANGED locks
  \/ \E t \in Tids : ThreadStart(t) /\ UNCHANGED locks
  \/ \E t \in Tids : ThreadFinish(t) /\ UNCHANGED locks
  \/ \E t \in Tids, u \in Uids : ThreadJoin(t, u) /\ UNCHANGED locks
  \/ \E t \in Tids, u \in Uids : ThreadDetach(t, u) /\ UNCHANGED locks

SpecLife == Init /\ [][NextLife]_vars

\* Thread create/start/finish/join/detach with accesses to the whole word.
NextHB ==
  \/ \E t \in Tids, u \in Uids, d \in BOOLEAN : ThreadCreate(t, u, d) /\ UNCHANGED locks
  \/ \E t \in Tids : ThreadStart(t) /\ UNCHANGED locks
  \/ \E t \in Tids : ThreadFinish(t) /\ UNCHANGED locks
  \/ \E t \in Tids, u \in Uids : ThreadJoin(t, u) /\ UNCHANGED locks
  \/ \E t \in Tids, u \in Uids : ThreadDetach(t, u) /\ UNCHANGED locks
  \/ \E t \in Tids, w \in BOOLEAN :
       epoch[t] < MaxEpochHB /\ MemoryAccess(t, 1, <<0, 8>>, w) /\ UNCHANGED locks

SpecHB == Init /\ [][NextHB]_vars

\* The same calls, ThreadJoin and ThreadDetach with every uid, 0 (the uid of the
\* main thread and of every free context) included.
NextUid ==
  \/ \E t \in Tids, u \in Uids, d \in BOOLEAN : ThreadCreate(t, u, d) /\ UNCHANGED locks
  \/ \E t \in Tids : ThreadStart(t) /\ UNCHANGED locks
  \/ \E t \in Tids : ThreadFinish(t) /\ UNCHANGED locks
  \/ \E t \in Tids, u \in 0 .. MaxUid : ThreadJoin(t, u) /\ UNCHANGED locks
  \/ \E t \in Tids, u \in 0 .. MaxUid : ThreadDetach(t, u) /\ UNCHANGED locks
  \/ \E t \in Tids, w \in BOOLEAN :
       epoch[t] < MaxEpochHB /\ MemoryAccess(t, 1, <<0, 8>>, w) /\ UNCHANGED locks

SpecUid == Init /\ [][NextUid]_vars

\* Two threads, one mutex, accesses to one range.
NextMutex ==
  \/ \E t \in Tids : thread_seq < 2 /\ ThreadCreate(t, 1, FALSE) /\ UNCHANGED locks
  \/ \E t \in Tids : ThreadStart(t) /\ UNCHANGED locks
  \/ \E t \in Tids, m \in Mutexes : epoch[t] < MaxEpoch - 2 - t /\ MutexLock(t, m)
       /\ UNCHANGED locks
  \/ \E t \in Tids, m \in Mutexes : epoch[t] < MaxEpoch - 2 - t /\ MutexUnlock(t, m)
       /\ UNCHANGED locks
  \/ \E t \in Tids, w \in BOOLEAN :
       epoch[t] < MaxEpoch - 2 - t /\ MemoryAccess(t, 1, <<0, 4>>, w) /\ UNCHANGED locks

SpecMutex == Init /\ [][NextMutex]_vars

\* Two threads, the second created before the first access, one mutex, accesses
\* to one range.
NextSynch ==
  \/ \E t \in Tids : thread_seq < 2 /\ epoch[t] = 1 /\ ThreadCreate(t, 1, FALSE)
       /\ UNCHANGED locks
  \/ \E t \in Tids : ThreadStart(t) /\ UNCHANGED locks
  \/ \E t \in Tids, m \in Mutexes : epoch[t] < MaxEpoch - 2 - t /\ MutexLock(t, m)
       /\ UNCHANGED locks
  \/ \E t \in Tids, m \in Mutexes : epoch[t] < MaxEpoch - 2 - t /\ MutexUnlock(t, m)
       /\ UNCHANGED locks
  \/ \E t \in Tids, w \in BOOLEAN :
       epoch[t] < MaxEpoch - 2 - t /\ MemoryAccess(t, 1, <<0, 4>>, w) /\ UNCHANGED locks

SpecSynch == Init /\ [][NextSynch]_vars

\* Two threads, no synchronization but the creation, accesses to every range.
NextShadow ==
  \/ \E t \in Tids : thread_seq < 2 /\ ThreadCreate(t, 1, FALSE) /\ UNCHANGED locks
  \/ \E t \in Tids : ThreadStart(t) /\ UNCHANGED locks
  \/ \E t \in Tids, a \in Accesses, w \in BOOLEAN :
       epoch[t] < MaxEpoch - 3 - t /\ MemoryAccess(t, 1, a, w) /\ UNCHANGED locks

SpecShadow == Init /\ [][NextShadow]_vars

\* Two threads whose MemoryAccess calls interleave slot by slot.
NextRace ==
  \/ \E t \in Tids : thread_seq < 2 /\ ThreadCreate(t, 1, FALSE) /\ UNCHANGED locks
  \/ \E t \in Tids : ThreadStart(t) /\ UNCHANGED locks
  \/ \E t \in Tids, m \in Mutexes : epoch[t] < MaxEpochRace /\ MutexLock(t, m)
       /\ UNCHANGED locks
  \/ \E t \in Tids, m \in Mutexes : epoch[t] < MaxEpochRace /\ MutexUnlock(t, m)
       /\ UNCHANGED locks
  \/ \E t \in Tids, a \in RaceAccesses, w \in BOOLEAN :
       epoch[t] < MaxEpochRace /\ MA_Begin(t, 1, a, w) /\ UNCHANGED locks
  \/ \E t \in Tids : MA_Load(t) /\ UNCHANGED locks
  \/ \E t \in Tids : MA_Store(t) /\ UNCHANGED locks
  \/ \E t \in Tids : MA_Fin(t) /\ UNCHANGED locks

SpecRace == Init /\ [][NextRace]_vars

\* thread t is inside a function it has entered
Entered(t) == callstack[t] # << >> /\ Open(callstack[t]) # << >>

\* Two threads that enter and leave functions (a function is left only after it
\* was entered) and write the word, long enough for the trace ring to wrap.
NextTrace ==
  \/ \E t \in Tids : thread_seq < 2 /\ epoch[t] = 1 /\ ThreadCreate(t, 1, FALSE)
       /\ UNCHANGED locks
  \/ \E t \in Tids : ThreadStart(t) /\ UNCHANGED locks
  \/ \E t \in Tids : ThreadFinish(t) /\ UNCHANGED locks
  \/ \E t \in Tids, pc \in PCs : epoch[t] < MaxEpoch - 5 * t /\ FuncEntry(t, pc)
       /\ UNCHANGED locks
  \/ \E t \in Tids :
       epoch[t] < MaxEpoch - 5 * t /\ Entered(t) /\ FuncExit(t) /\ UNCHANGED locks
  \/ \E t \in Tids, pc \in PCs :
       epoch[t] < MaxEpoch - 5 * t /\ MemoryAccess(t, pc, <<0, 8>>, TRUE) /\ UNCHANGED locks

SpecTrace == Init /\ [][NextTrace]_vars

\* Every call that reads or writes a clock or an epoch: two joinable threads that
\* create, join, lock, unlock, enter and leave functions and read the word.
NextClock ==
  \/ \E t \in Tids : thread_seq < 2 /\ ThreadCreate(t, 1, FALSE) /\ UNCHANGED locks
  \/ \E t \in Tids : ThreadStart(t) /\ UNCHANGED locks
  \/ \E t \in Tids : ThreadFinish(t) /\ UNCHANGED locks
  \/ \E t \in Tids, u \in Uids : ThreadJoin(t, u) /\ UNCHANGED locks
  \/ \E t \in Tids, m \in Mutexes : epoch[t] < MaxEpochClock /\ MutexLock(t, m)
       /\ UNCHANGED locks
  \/ \E t \in Tids, m \in Mutexes : epoch[t] < MaxEpochClock /\ MutexUnlock(t, m)
       /\ UNCHANGED locks
  \/ \E t \in Tids : epoch[t] < MaxEpochClock /\ FuncEntry(t, 1) /\ UNCHANGED locks
  \/ \E t \in Tids : epoch[t] < MaxEpochClock /\ Entered(t) /\ FuncExit(t)
       /\ UNCHANGED locks
  \/ \E t \in Tids : epoch[t] < MaxEpochClock /\ MemoryAccess(t, 1, <<0, 8>>, FALSE)
       /\ UNCHANGED locks

SpecClock == Init /\ [][NextClock]_vars

\* Two threads whose MutexLock and MutexUnlock calls on one address interleave
\* step by step.
NextSpin ==
  \/ \E t \in Tids : thread_seq < 2 /\ Idle(t) /\ ThreadCreate(t, 1, FALSE) /\ UNCHANGED locks
  \/ \E t \in Tids : ThreadStart(t) /\ UNCHANGED locks
  \/ \E t \in Tids, m \in Mutexes : epoch[t] < MaxEpochSpin /\ ML_Begin(t, m)
  \/ \E t \in Tids, m \in Mutexes : epoch[t] < MaxEpochSpin /\ MU_Begin(t, m)
  \/ \E t \in Tids : ML_Get(t)
  \/ \E t \in Tids : ML_Create(t)
  \/ \E t \in Tids : ML_Acquire(t)
  \/ \E t \in Tids : MU_Get(t)
  \/ \E t \in Tids : MU_Release(t)
  \/ \E t \in Tids : SpinUnlock(t)

SpecSpin == Init /\ [][NextSpin]_vars

\* One step of thread t in a run of two threads whose calls interleave lock by
\* lock: the registry calls (the main thread creates, joins and detaches, the
\* other starts and finishes), function entries and exits of the main thread
\* and writes of the word, with trace rotation and reports.
LockStep(t) ==
  \/ TR_Enter(t)
  \/ thread_seq < 2 /\ epoch[t] = 1 /\ TR_Lock(t) /\ ThreadCreate(t, 1, FALSE)
  \/ TR_Lock(t) /\ ThreadStart(t)
  \/ t = 1 /\ TR_Lock(t) /\ ThreadFinish(t)
  \/ t = 0 /\ TR_Lock(t) /\ ThreadJoin(t, 1)
  \/ t = 0 /\ TR_Lock(t) /\ ThreadDetach(t, 1)
  \/ TR_Unlock(t)
  \/ epoch[t] < MaxEpochLocks - 4 * t /\ TS_Enter(t)
  \/ TS_Lock(t)
  \/ t = 0 /\ epoch[t] < MaxEpochLocks /\ TS_Unlock(t, epoch[t] + 1) /\ FuncEntry(t, 1)
  \/ t = 0 /\ epoch[t] < MaxEpochLocks /\ Entered(t) /\ TS_Unlock(t, epoch[t] + 1)
       /\ FuncExit(t)
  \/ epoch[t] < MaxEpochLocks - 4 * t /\ TS_Unlock(t, epoch[t] + 1)
       /\ MA_Begin(t, 1, <<0, 8>>, TRUE)
  \/ MA_Load(t) /\ UNCHANGED locks
  \/ MA_Store(t) /\ UNCHANGED locks
  \/ ~ReportsRace(mop[t].racy) /\ MA_Fin(t) /\ UNCHANGED locks
  \/ RR_Lock(t)
  \/ RS_Lock0(t)
  \/ RS_Status(t)
  \/ RS_Lock1(t)
  \/ RS_Replay(t)
  \/ RR_Report(t)

\* the threads of such a run
LockTids == { 0, 1 }

NextLocks == \E t \in LockTids : LockStep(t)

SpecLocks == Init /\ [][NextLocks]_vars

\* The same with every thread scheduled again and again and every lock handed to
\* a thread that keeps waiting for it: a thread that can step again and again
\* does step.
SpecLocksFair == SpecLocks /\ \A t \in LockTids : SF_vars(LockStep(t))

\* ---------------------------------------------------------------- claims
\* the byte ranges of two descriptors share a byte
Overlap(s, r) ==
  \E b \in 0 .. 7 : s.addr0 <= b /\ b <= s.addr1 /\ r.addr0 <= b /\ b <= r.addr1

\* C1 (no false positives): every report pairs the reporter's access s0 with a
\* descriptor s1 that some MemoryAccess of another thread stored in the cell, the
\* byte ranges of the two overlap, at least one of them is a write, and the
\* reporter's clock component for s1.tid is below s1.epoch; under every
\* interleaving of the slot loads and stores of concurrent scans.
C1_NoFalsePositive ==
  \A r \in reports :
    /\ r.s1 \in stored
    /\ r.s0.tid # r.s1.tid
    /\ Overlap(r.s0, r.s1)
    /\ (r.s0.write \/ r.s1.write)
    /\ r.clk < r.s1.epoch

\* a report against a thread that has synchronized with the reporter before and
\* is by now in the middle of a later scan of the same cell
C1_Witness ==
  \E r \in reports :
    /\ mop[r.s1.tid].pc = "store"
    /\ mop[r.s1.tid].s0.epoch > r.s1.epoch
    /\ r.clk > 0

\* slot value s of the cell records an access of another thread than the caller of
\* the last MemoryAccess, overlapping that access
ForeignOverlap(s) == s # Zero /\ s.tid # last.t /\ Overlap(s, last.s0)

\* ... and is neither ordered before it by the caller's clock nor a read beside a read
Unordered(s) ==
  /\ ForeignOverlap(s)
  /\ clock[last.t][s.tid] < s.epoch
  /\ (last.s0.write \/ s.write)

\* slot value s is the caller's own record of the same bytes from the current
\* synch epoch that already covers the last access
Covers(s) ==
  /\ s # Zero /\ s.tid = last.t
  /\ s.addr0 = last.s0.addr0 /\ s.addr1 = last.s0.addr1
  /\ s.epoch >= fast_synch_epoch[last.t]
  /\ (s.write \/ ~last.s0.write)

\* C2 as stated: after a MemoryAccess A1 that found the cell holding a slot A2 of
\* another thread with an overlapping range, the reporter was called if and only
\* if the caller's clock for A2's thread is below A2's epoch and A1 or A2 is a write.
C2_ReportIffSlot ==
  last.op = "MemoryAccess" =>
    \A i \in Slots : ForeignOverlap(last.pre[i]) =>
      (last.rep <=> Unordered(last.pre[i]))

\* C2 amended: after such a MemoryAccess the reporter was called if and only if
\* some overlapping slot of another thread is unordered and not read/read, and
\* the cell held no slot of the caller that already covers the access.
C2_ReportIffCell ==
  (last.op = "MemoryAccess" /\ \E i \in Slots : ForeignOverlap(last.pre[i])) =>
    (last.rep <=> /\ \E i \in Slots : Unordered(last.pre[i])
                  /\ \A i \in Slots : ~Covers(last.pre[i]))

\* a MemoryAccess that found an unordered conflicting slot and a covering slot of
\* its own, and returned without a report
C2_Witness ==
  /\ last.op = "MemoryAccess"
  /\ ~last.rep
  /\ \E i \in Slots : Unordered(last.pre[i])
  /\ \E i \in Slots : Covers(last.pre[i])

\* C3 (mutex happens-before edge): once T1 (e.to) has returned from a MutexLock(M)
\* that followed a MutexUnlock(M) of T0 (e.from) made at epoch e.upto, T1's clock
\* component for T0 is at least e.upto, which bounds the epoch of every access T0
\* made before the unlock, and no report pairs an access of T0 from before the
\* unlock with an access of T1 from after the lock (epoch above e.at).
C3_MutexEdge ==
  \A e \in edges : e.k = "mutex" =>
    /\ clock[e.to][e.from] >= e.upto
    /\ \A r \in reports :
         /\ ~(/\ r.s1.tid = e.from /\ r.s1.epoch <= e.upto
              /\ r.s0.tid = e.to /\ r.s0.epoch > e.at)
         /\ ~(/\ r.s0.tid = e.from /\ r.s0.epoch <= e.upto
              /\ r.s1.tid = e.to /\ r.s1.epoch > e.at)

\* T0 wrote and unlocked, T1 locked and then accessed the same bytes: the slot of
\* T0's write is in the cell T1's access scanned, and no report was made
C3_Witness ==
  \E e \in edges :
    /\ e.k = "mutex"
    /\ last.op = "MemoryAccess" /\ last.t = e.to /\ last.s0.epoch > e.at
    /\ \E i \in Slots : /\ last.pre[i].tid = e.from /\ last.pre[i].write
                        /\ last.pre[i].epoch > 1 /\ last.pre[i].epoch <= e.upto
    /\ ~last.rep

\* C4 (join happens-before edge): once T0 (e.to) has returned from the ThreadJoin
\* of a non-detached finished thread T1 (e.from), T0's clock component for T1 is
\* at least T1's epoch at ThreadFinish (e.upto), and no report pairs an access of
\* T0 made after the join (epoch above e.at) with an access of T1.
C4_JoinEdge ==
  \A e \in edges : e.k = "join" =>
    /\ clock[e.to][e.from] >= e.upto
    /\ epoch[e.from] = e.upto
    /\ \A r \in reports :
         ~(r.s1.tid = e.from /\ r.s0.tid = e.to /\ r.s0.epoch > e.at)

\* T1 wrote and finished, T0 joined it and then accessed the same bytes: T1's
\* write was in the cell T0's access scanned, and no report was made
C4_Witness ==
  \E e \in edges :
    /\ e.k = "join"
    /\ last.op = "MemoryAccess" /\ last.t = e.to /\ last.s0.epoch > e.at
    /\ \E i \in Slots : /\ last.pre[i].tid = e.from /\ last.pre[i].write
                        /\ last.pre[i].epoch > 1
    /\ ~last.rep

\* C5 (create happens-before edge): for every ThreadCreate by a parent P (e.from,
\* any tid, the main thread included) at parent epoch E (e.upto), once the created
\* thread C (e.to) has run ThreadStart its clock component for P is at least E,
\* and no report pairs an access P made before the ThreadCreate with an access of C.
C5_CreateEdge ==
  \A e \in edges : (e.k = "create" /\ epoch[e.to] >= 1) =>
    /\ clock[e.to][e.from] >= e.upto
    /\ \A r \in reports :
         /\ ~(r.s1.tid = e.from /\ r.s1.epoch <= e.upto /\ r.s0.tid = e.to)
         /\ ~(r.s0.tid = e.from /\ r.s0.epoch <= e.upto /\ r.s1.tid = e.to)

\* the main thread wrote, created a thread that created another after a write of
\* its own, and the youngest thread accessed the bytes and found its parent's
\* write in the cell: no report was made
C5_Witness ==
  \E e \in edges, f \in edges :
    /\ e.k = "create" /\ e.from = 0 /\ e.upto > 1
    /\ f.k = "create" /\ f.from = e.to /\ f.upto > 1
    /\ last.op = "MemoryAccess" /\ last.t = f.to
    /\ \E i \in Slots : /\ last.pre[i].tid = f.from /\ last.pre[i].write
                        /\ last.pre[i].epoch > 1 /\ last.pre[i].epoch <= f.upto
    /\ ~last.rep

\* the run so far is the classic race: T0 created T1 at epoch 1, then made one
\* access, a write of the bytes last.a, with no synchronization after the create,
\* and T1's only access, a read of the same bytes, has just returned
C6_Scenario ==
  /\ edges = { [k |-> "create", from |-> 0, upto |-> 1, to |-> 1, at |-> 1] }
  /\ epoch[0] = 2 /\ epoch[1] = 2
  /\ last.op = "MemoryAccess" /\ last.t = 1 /\ ~last.s0.write
  /\ hist[0] = { [r |-> << last.s0.addr0, last.s0.addr1 >>, w |-> TRUE,
                  acq |-> FALSE] }

\* C6 (classic race): after T0 created T1, wrote size bytes at p and T1 then read
\* the same bytes, exactly one report exists, and it pairs the read by tid 1 with
\* the write by tid 0, both at p with the size of the access.
C6_ClassicRace ==
  C6_Scenario =>
    /\ Cardinality(reports) = 1
    /\ \A r \in reports :
         /\ r.mop0 = [tid |-> 1, addr |-> last.a[1], size |-> last.a[2],
                      write |-> FALSE]
         /\ r.mop1 = [tid |-> 0, addr |-> last.a[1], size |-> last.a[2],
                      write |-> TRUE]

\* the scenario with a 4-byte access, reported
C6_Witness == C6_Scenario /\ last.a = <<0, 4>> /\ last.rep

\* the last operation was a MemoryAccess writing bytes that its caller had already
\* written, with no acquire or release by the caller since that earlier write
RepeatedWrite ==
  /\ last.op = "MemoryAccess" /\ last.s0.write
  /\ [r |-> << last.s0.addr0, last.s0.addr1 >>, w |-> TRUE, acq |-> FALSE]
       \in last.had

\* the cell the last MemoryAccess found held a slot of its caller for exactly the
\* same bytes, from the caller's current synch epoch, with write = w
HeldOwn(w) ==
  \E i \in Slots :
    /\ last.pre[i] # Zero /\ last.pre[i].tid = last.t
    /\ last.pre[i].addr0 = last.s0.addr0 /\ last.pre[i].addr1 = last.s0.addr1
    /\ last.pre[i].write = w
    /\ last.pre[i].epoch >= fast_synch_epoch[last.t]

\* C7 as stated (write idempotence): a write by T to bytes it has already written,
\* with no acquire or release by T in between, leaves every slot of the cell as
\* it was immediately before the call.
C7_WriteIdempotent == RepeatedWrite => shadow = last.pre

\* C7 amended: a write by T that directly follows a write by T to the same bytes
\* (no operation of any thread in between) leaves every slot of the cell as it
\* was immediately before the call.
C7_WriteTwice ==
  [][ ( /\ last.op = "MemoryAccess" /\ last.s0.write
        /\ last'.op = "MemoryAccess" /\ last'.s0.write
        /\ last'.t = last.t
        /\ last'.s0.addr0 = last.s0.addr0 /\ last'.s0.addr1 = last.s0.addr1 )
      => shadow' = shadow ]_vars

\* a repeated write that met the slot of the write of the epoch before, behind a
\* slot of another thread, and left the cell alone
C7_Witness ==
  /\ RepeatedWrite
  /\ \E i \in Slots : last.pre[i] = [last.s0 EXCEPT !.epoch = last.s0.epoch - 1]
  /\ \E i \in Slots : last.pre[i] # Zero /\ last.pre[i].tid # last.t
  /\ shadow = last.pre

\* the last operation was a MemoryAccess reading bytes that its caller has written
\* earlier in its current synch epoch (fast_synch_epoch unchanged since the
\* write; the caller may have acquired in between)
ReadAfterWrite ==
  /\ last.op = "MemoryAccess" /\ ~last.s0.write
  /\ \E h \in last.had : h.r = << last.s0.addr0, last.s0.addr1 >> /\ h.w

\* C8 as stated (read after write): a read by T of bytes it has written in the
\* same synch epoch, a MutexLock acquire in between included, leaves every slot
\* of the cell as it was immediately before the call.
C8_ReadAfterWrite == ReadAfterWrite => shadow = last.pre

\* C8 amended: a read by T that directly follows a write by T to the same bytes
\* (no operation of any thread in between, so no acquire either) leaves every slot
\* of the cell as it was immediately before the call.
C8_ReadDirectlyAfterWrite ==
  [][ ( /\ last.op = "MemoryAccess" /\ last.s0.write
        /\ last'.op = "MemoryAccess" /\ ~last'.s0.write
        /\ last'.t = last.t
        /\ last'.s0.addr0 = last.s0.addr0 /\ last'.s0.addr1 = last.s0.addr1 )
      => shadow' = shadow ]_vars

\* a read that met the slot of the write of the epoch before, behind a slot of
\* another thread, and left the cell alone
C8_Witness ==
  /\ ReadAfterWrite
  /\ \E i \in Slots :
       last.pre[i] = [last.s0 EXCEPT !.epoch = last.s0.epoch - 1, !.write = TRUE]
  /\ \E i \in Slots : last.pre[i] # Zero /\ last.pre[i].tid # last.t
  /\ shadow = last.pre

\* the last operation was a MemoryAccess writing bytes that its caller has read
\* earlier in its current synch epoch, and the cell it found held the caller's
\* read slot for these bytes
Upgrade ==
  /\ last.op = "MemoryAccess" /\ last.s0.write
  /\ \E h \in last.had : h.r = << last.s0.addr0, last.s0.addr1 >> /\ ~h.w
  /\ HeldOwn(FALSE)

\* the slots with the bytes of the last access whose write bit the access turned on
TurnedOn ==
  { i \in Slots : /\ ~last.pre[i].write /\ shadow[i].write
                  /\ shadow[i].addr0 = last.s0.addr0
                  /\ shadow[i].addr1 = last.s0.addr1 }

\* slot value s is a write to the bytes of the last access that the access
\* replaces: an older write of the caller from an earlier synch epoch, or a write
\* of another thread that is ordered before the access
ReplacedWrite(s) ==
  /\ s # Zero /\ s.write
  /\ s.addr0 = last.s0.addr0 /\ s.addr1 = last.s0.addr1
  /\ IF s.tid = last.t THEN s.epoch < fast_synch_epoch[last.t]
     ELSE clock[last.t][s.tid] >= s.epoch

\* C9 as stated (read-to-write upgrade): when T writes bytes it has read in the
\* same synch epoch, exactly one slot with these bytes changes from write=0 to
\* write=1, whatever else the cell holds (an older write of T included).
C9_UpgradeOne == Upgrade => Cardinality(TurnedOn) = 1

\* C9 amended: exactly one such slot changes from write=0 to write=1 provided
\* the cell holds no write to these bytes that the access replaces; when it holds
\* one, at most one slot changes and T's read slot is no longer in the cell.
C9_UpgradeUnlessReplaced ==
  Upgrade =>
    /\ (\A i \in Slots : ~ReplacedWrite(last.pre[i])) => Cardinality(TurnedOn) = 1
    /\ Cardinality(TurnedOn) <= 1
    /\ \A i \in Slots :
         ~(/\ shadow[i] # Zero /\ shadow[i].tid = last.t /\ ~shadow[i].write
           /\ shadow[i].addr0 = last.s0.addr0 /\ shadow[i].addr1 = last.s0.addr1)

\* an upgrade next to an older write of the same thread from an earlier synch
\* epoch: the older write's slot took the descriptor and the read slot was zeroed
C9_Witness ==
  /\ Upgrade
  /\ \E i \in Slots : ReplacedWrite(last.pre[i]) /\ last.pre[i].tid = last.t
  /\ TurnedOn = {}
  /\ \E i \in Slots : shadow[i] = Zero /\ last.pre[i] # Zero

InvalidTids == { x \in Tids : status[x] = "Invalid" }

\* C11 (tid allocation): every ThreadCreate (the step that advances thread_seq;
\* the tid it hands out is thread_seq) returns the smallest tid whose context is
\* Invalid, and it reaches Die only when no context in [0, kMaxTid) is Invalid.
C11_SmallestInvalid ==
  [][thread_seq' # thread_seq =>
       IF died' THEN InvalidTids = {}
       ELSE /\ thread_seq \in InvalidTids
            /\ \A x \in InvalidTids : thread_seq <= x]_vars

\* ---------------------------------------------------------------- C12
\* uid u names a joinable thread that has not finished yet
NotYetFinished(u) ==
  \E x \in Tids : /\ uid[x] = u
                  /\ status[x] \in {"Created", "Running"}
                  /\ ~detached[x]

\* C12 (join of a running thread): a ThreadJoin whose target is joinable and still
\* Created or Running does not reach Die (the joiner is to wait for the target
\* to finish, then acquire its sync clock and free it).
C12_JoinWaits ==
  [][(last'.op = "ThreadJoin" /\ NotYetFinished(last'.arg)) => ~died']_vars

\* ---------------------------------------------------------------- C13
\* no context that is in use carries uid u
NoSuchThread(u) == \A x \in Tids : uid[x] = u => status[x] = "Invalid"

\* C13 (join/detach of an unknown uid): a ThreadJoin or ThreadDetach with a uid
\* that no context in use carries changes no field of any context, no clock and
\* no epoch, and does not reach Die.
C13_UnknownUid ==
  [][(last'.op \in {"ThreadJoin", "ThreadDetach"} /\ NoSuchThread(last'.arg)) =>
       /\ UNCHANGED << status, uid, detached, thrp, tsync >>
       /\ UNCHANGED << clock, epoch, fast_synch_epoch >>
       /\ ~died']_vars

\* a thread that has made an access detaches uid 0 after the main thread is gone:
\* the search stops at the main thread's freed context (every free context has
\* uid 0, and only the main thread was created with it)
C13_Witness ==
  /\ last.op = "ThreadDetach"
  /\ last.arg = 0
  /\ status[0] = "Invalid"
  /\ epoch[last.t] > 1
  /\ ~died

\* ---------------------------------------------------------------- C14
\* C14 (unlock of an unknown mutex): a MutexUnlock on an address that has no sync
\* object in the table leaves the caller's epoch, trace, clock and
\* fast_synch_epoch and the sync table as they were, and does not reach Die.
C14_UnlockUnknown ==
  [][(last'.op = "MutexUnlock" /\ ~synctab[last'.arg].present) =>
       /\ UNCHANGED << epoch, events, headers >>
       /\ UNCHANGED << clock, fast_synch_epoch, synctab >>
       /\ ~died']_vars

\* ---------------------------------------------------------------- C15
\* the number of frames of fs with pc x
Count(fs, x) == Cardinality({ j \in DOMAIN fs : fs[j] = x })

\* the two frame lists hold the same pcs, whatever their order
SameFrames(fs, gs) ==
  /\ Len(fs) = Len(gs)
  /\ \A j \in DOMAIN fs : Count(fs, fs[j]) = Count(gs, fs[j])

\* thread tid is Running and the partition of its epoch e has not been rotated since
Intact(tid, e) ==
  /\ status[tid] = "Running"
  /\ e >= headers[tid][(e \div PartSize) % kTraceParts]

\* the frames of the access thread tid made at epoch e: the functions it had
\* entered and not left, and the pc of the access (still in the ring for an
\* intact partition)
FramesAt(tid, e) == Append(callstack[tid][e], events[tid][e % kTraceSize].pc)

\* C15 (stack reconstruction): when ReportRace has just been called, then for
\* each of the two accesses whose thread is Running and whose trace partition has
\* not been rotated since, the frames RestoreStack returned are the pcs of the
\* functions open at that epoch plus the pc of the access.
C15_StackFidelity ==
  (last.op = "MemoryAccess" /\ last.rep) =>
    \A r \in reports : r.s0 = last.s0 =>
      /\ ~r.ub
      /\ Intact(r.s0.tid, r.s0.epoch) =>
           SameFrames(r.stack0, FramesAt(r.s0.tid, r.s0.epoch))
      /\ Intact(r.s1.tid, r.s1.epoch) =>
           SameFrames(r.stack1, FramesAt(r.s1.tid, r.s1.epoch))

\* ---------------------------------------------------------------- C16
\* the trace context of the access thread tid made at epoch e is lost: the
\* thread is not Running any more, or the partition has been overwritten
Lost(tid, e) == ~Intact(tid, e)

\* C16 (lost trace context): when ReportRace has just been called and the trace
\* context of one of the two accesses is lost, the report has been built and
\* handed on, with no frame for that access.
C16_LostContext ==
  (last.op = "MemoryAccess" /\ last.rep) =>
    /\ \E r \in reports : r.s0 = last.s0
    /\ \A r \in reports : r.s0 = last.s0 =>
         /\ Lost(r.s0.tid, r.s0.epoch) => (~r.ub /\ r.stack0 = << >>)
         /\ Lost(r.s1.tid, r.s1.epoch) => (~r.ub /\ r.stack1 = << >>)

\* ---------------------------------------------------------------- C17
\* the own component of a Running thread's clock lies between its
\* fast_synch_epoch and its epoch
OwnClockBounds ==
  \A t \in Tids : status[t] = "Running" =>
    /\ fast_synch_epoch[t] <= ClockGet(clock[t], t)
    /\ ClockGet(clock[t], t) <= epoch[t]

\* C17 (own-clock invariant): in every reachable state, for every Running thread
\* T, T.fast_synch_epoch <= T.clock.get(T.tid) <= T.epoch, and no step taken
\* while T stays Running decreases T.clock.get(T.tid).
C17_OwnClock ==
  /\ []OwnClockBounds
  /\ [][\A t \in Tids : (status[t] = "Running" /\ status'[t] = "Running") =>
          ClockGet(clock'[t], t) >= ClockGet(clock[t], t)]_vars

\* a thread that has acquired another thread's clock at a lock or join after its
\* last release, and has moved on since
C17_Witness ==
  \E t \in Tids, u \in Tids :
    /\ t # u
    /\ status[t] = "Running"
    /\ fast_synch_epoch[t] < ClockGet(clock[t], t)
    /\ ClockGet(clock[t], t) < epoch[t]
    /\ ClockGet(clock[t], u) > 1

\* ---------------------------------------------------------------- C18
\* the calls of a thread that the claim lists
DetectorOps ==
  { "MemoryAccess", "FuncEntry", "FuncExit", "MutexLock", "MutexUnlock",
    "ThreadCreate", "ThreadJoin" }

\* C18 (every operation increments the epoch): each MemoryAccess, FuncEntry,
\* FuncExit, MutexLock, MutexUnlock, ThreadCreate (by the parent) and ThreadJoin
\* (by the joiner) that returns leaves the caller's epoch strictly greater than
\* before the call.
C18_EveryOpAdvances ==
  [][(last'.op \in DetectorOps /\ ~died') =>
       epoch'[last'.t] > epoch[last'.t]]_vars

\* ---------------------------------------------------------------- C19
\* the slots whose value the last MemoryAccess changed
Written == { i \in Slots : shadow[i] # last.pre[i] }

\* the position of slot i in the scan order of the last MemoryAccess
ScanPos(i) == CHOOSE k \in Slots : (k + ScanOff(last.a)) % kShadowCnt = i

\* slot value s records the bytes of the last access and is one the scan replaces:
\* the caller's own record from an earlier synch epoch (unless a read would
\* replace a write), the caller's read of the current synch epoch under a write,
\* or another thread's record that is ordered before the access
Replaces(s) ==
  /\ s # Zero
  /\ s.addr0 = last.s0.addr0 /\ s.addr1 = last.s0.addr1
  /\ IF s.tid = last.t
     THEN IF s.epoch >= fast_synch_epoch[last.t]
          THEN ~s.write /\ last.s0.write
          ELSE ~s.write \/ last.s0.write
     ELSE clock[last.t][s.tid] >= s.epoch

\* C19 as stated: one MemoryAccess writes at most one slot of the cell (the
\* fallback store, which happens only when the scan wrote none, included).
C19_OneSlotWritten ==
  last.op = "MemoryAccess" => Cardinality(Written) <= 1

\* C19 amended: one MemoryAccess stores its descriptor s0 into at most one slot;
\* every other slot it writes is a slot the scan replaces, visited after the slot
\* that took s0, and is set to zero.
C19_OneSlotTakesS0 ==
  last.op = "MemoryAccess" =>
    /\ Cardinality({ i \in Slots : shadow[i] = last.s0 }) <= 1
    /\ \A i \in Written :
         \/ shadow[i] = last.s0
         \/ /\ shadow[i] = Zero
            /\ Replaces(last.pre[i])
            /\ \E j \in Slots : shadow[j] = last.s0 /\ ScanPos(j) < ScanPos(i)

\* a MemoryAccess that wrote two slots: s0 into one and zero into another
C19_Witness ==
  /\ last.op = "MemoryAccess"
  /\ Cardinality(Written) = 2
  /\ \E i \in Written : shadow[i] = last.s0
  /\ \E i \in Written : shadow[i] = Zero

\* ---------------------------------------------------------------- C20
\* the scan of the last MemoryAccess has reached slot i: no slot before it in
\* the scan order made the scan stop
Visited(i) ==
  \A j \in Slots : Covers(last.pre[j]) => ScanPos(j) >= ScanPos(i)

\* the scan of the last MemoryAccess set racy at slot i
FoundRacy(i) == Unordered(last.pre[i]) /\ Visited(i)

\* a slot after slot i in the scan order made the scan stop with "done"
DoneAfter(i) ==
  \E j \in Slots : Covers(last.pre[j]) /\ ScanPos(j) > ScanPos(i)

\* C20 as stated: whenever the scan of a MemoryAccess has found a conflicting
\* slot, the reporter is called for that access, also when a slot visited later
\* stops the scan with "done".
C20_ReportWhenRacy ==
  last.op = "MemoryAccess" =>
    \A i \in Slots : FoundRacy(i) => last.rep

\* C20 amended: when the scan has found a conflicting slot, the reporter is
\* called for that access if and only if no slot visited later stops the scan
\* with "done".
C20_ReportUnlessDone ==
  last.op = "MemoryAccess" =>
    \A i \in Slots : FoundRacy(i) => (last.rep <=> ~DoneAfter(i))

\* a MemoryAccess whose scan set racy at one slot, was stopped by a later slot
\* and returned without a report
C20_Witness ==
  /\ last.op = "MemoryAccess"
  /\ \E i \in Slots : FoundRacy(i) /\ DoneAfter(i)
  /\ ~last.rep

\* ---------------------------------------------------------------- C21
\* the scan of the last MemoryAccess stopped at slot i, the caller's own record
\* of the same synch epoch, and the new access was not stored
Retained(i) == Covers(last.pre[i]) /\ Visited(i)

\* thread u orders the retained record last.pre[i] before itself but not the
\* access that was skipped for it
SplitVerdict(u, i) ==
  /\ last.pre[i].epoch <= ClockGet(clock[u], last.t)
  /\ ClockGet(clock[u], last.t) < last.s0.epoch

\* C21 (synch-epoch collapsing loses no race): when a MemoryAccess of thread T
\* leaves an older slot of T in place instead of storing the new access, no
\* other thread U has retained.epoch <= U.clock.get(T.tid) < skipped.epoch.
C21_CollapseLosesNoRace ==
  last.op = "MemoryAccess" =>
    \A i \in Slots : Retained(i) =>
      \A u \in Tids \ { last.t } : ~SplitVerdict(u, i)

\* ---------------------------------------------------------------- C22
\* the slot that the scan of thread t is at
ScanSlot(t) == (mop[t].i + mop[t].off) % kShadowCnt

\* slot value s records an access of another thread than t that the scan of t
\* may overwrite: the bytes of t's access, ordered before it by t's clock
MayOverwrite(t, s) ==
  /\ s.addr0 = mop[t].s0.addr0 /\ s.addr1 = mop[t].s0.addr1
  /\ ClockGet(clock[t], s.tid) >= s.epoch

\* C22 as stated: whenever a StoreShadow of the scan of thread t overwrites a
\* non-empty slot recording an access of another thread, that record has the
\* byte range of t's access and t.clock.get(s.tid) >= s.epoch; every other
\* record of another thread is left unchanged by the scan.
C22_SlotKept ==
  [][\A t \in Tids :
       (/\ mop[t].pc = "store" /\ mop'[t] # mop[t]
        /\ shadow[ScanSlot(t)] # Zero /\ shadow[ScanSlot(t)].tid # t)
       => MayOverwrite(t, shadow[ScanSlot(t)])]_vars

\* C22 amended: when MemoryAccess1 of thread t loads a non-empty slot value of
\* another thread and goes on to its StoreShadow (of s0 or of zero), the loaded
\* value has the byte range of the access and t.clock.get(s.tid) >= s.epoch; for
\* a loaded value that only intersects or is not ordered before the access it
\* makes no store.
C22_ForeignKept ==
  [][\A t \in Tids :
       (/\ mop[t].pc = "load" /\ mop'[t].pc = "store"
        /\ shadow[ScanSlot(t)] # Zero /\ shadow[ScanSlot(t)].tid # t)
       => MayOverwrite(t, shadow[ScanSlot(t)])]_vars

\* a scan that is about to overwrite the record of another thread that its clock
\* orders before the access
C22_Witness ==
  \E t \in Tids :
    /\ mop[t].pc = "store"
    /\ shadow[ScanSlot(t)] # Zero /\ shadow[ScanSlot(t)].tid # t
    /\ MayOverwrite(t, shadow[ScanSlot(t)])

\* ---------------------------------------------------------------- C23
\* the header and the first epoch of the partition of epoch e
PartOf(e) == (e \div PartSize) % kTraceParts
PartStart(e) == e - (e % PartSize)

\* the test of RestoreStack: the partition of epoch e has not been switched since
StillValid(t, e) == e >= headers[t][PartOf(e)]

\* the ring position of epoch e holds the event thread t recorded at epoch e
Recorded(t, e) ==
  /\ e \in 1 .. Len(appended[t])
  /\ appended[t][e] # NoEvent
  /\ events[t][e % kTraceSize] = appended[t][e]

\* the header of the partition a Running thread is in holds the partition's start
HeaderSet ==
  \A t \in Tids : status[t] = "Running" =>
    headers[t][PartOf(epoch[t])] = PartStart(epoch[t])

\* C23 as stated (trace ring invariant): the header of the current partition was
\* set at its first epoch, and for every epoch e1 of a Running thread with
\* e1 >= epoch0 of its partition, every ring position from the partition start up
\* to e1 holds the event the thread recorded at that epoch.
C23_TraceRing ==
  /\ HeaderSet
  /\ \A t \in Tids : status[t] = "Running" =>
       \A e1 \in 2 .. epoch[t] : StillValid(t, e1) =>
         \A e2 \in PartStart(e1) .. e1 : Recorded(t, e2)

\* C23 amended: the same for every position from the partition start, or from
\* epoch 2 (the first epoch a thread records an event at) in the thread's first
\* partition, up to e1.
C23_TraceRingFrom2 ==
  /\ HeaderSet
  /\ \A t \in Tids : status[t] = "Running" =>
       \A e1 \in 2 .. epoch[t] : StillValid(t, e1) =>
         \A e2 \in PartStart(e1) .. e1 : e2 >= 2 => Recorded(t, e2)

\* a thread whose ring has wrapped: one partition has been overwritten while an
\* older one is still valid
C23_Witness ==
  \E t \in Tids :
    /\ status[t] = "Running"
    /\ \E e1 \in 2 .. epoch[t] : ~StillValid(t, e1)
    /\ \E e1 \in 2 .. epoch[t] :
         StillValid(t, e1) /\ PartStart(e1) < PartStart(epoch[t])

\* ---------------------------------------------------------------- C24
\* the array stack after the replay loop of RestoreStack(tid, e, ...) in this state
Replayed(tid, e) ==
  Replay(events[tid], e % PartSize, 0,
         [stack |-> [k \in 0 .. (kStackSize - 1) |-> Uninit], pos |-> 0,
          ub |-> FALSE]).stack

\* the frames fs returned for (tid, e) are the replayed stack turned around,
\* compared at every element the replay has written
IsReversal(fs, tid, e) ==
  \A i \in 0 .. (Len(fs) - 1) :
    Replayed(tid, e)[Len(fs) - 1 - i] # Uninit =>
      fs[i + 1] = Replayed(tid, e)[Len(fs) - 1 - i]

\* C24 (reversal): when ReportRace has just been called, the frames RestoreStack
\* returned for each of the two accesses are the exact reversal of the replayed
\* stack: result[i] = S[n-1-i] for every length n and every i < n.
C24_ExactReversal ==
  (last.op = "MemoryAccess" /\ last.rep) =>
    \A r \in reports : (r.s0 = last.s0 /\ ~r.ub) =>
      /\ IsReversal(r.stack0, r.s0.tid, r.s0.epoch)
      /\ IsReversal(r.stack1, r.s1.tid, r.s1.epoch)

\* ---------------------------------------------------------------- C25
\* C25 (replay stays inside the buffer): in no RestoreStack made for a report
\* does the replay index the caller's array stack[kStackSize] outside its bounds,
\* neither at or above kStackSize after FuncEnter events nor below 0 after a
\* FuncExit replayed with no open frame.
C25_IndexInBounds == \A r \in reports : ~r.ub


\* thread t takes the step ML_Acquire or MU_Release
ClockStep(t) == sop[t].pc = "clock" /\ sop'[t].pc = "unlock"

\* thread t takes the step SpinUnlock
UnlockStep(t) == sop[t].pc = "unlock" /\ sop'[t].pc = "idle"

\* thread t holds the spinlock of the sync object its pointer s refers to
HoldsSpin(t) == spin[sop[t].m][sop[t].obj] = t

\* C26 (spinlock held across the clock operation): in every MutexLock and
\* MutexUnlock, the implicitly creating MutexLock included, the caller holds the
\* sync object's spinlock when it acquires from or releases into the object's
\* clock and when it calls Unlock at the end, and no two threads are about to
\* operate on the clock of one sync object at the same time.
C26_SpinHeld ==
  /\ [](\A t \in Tids : sop[t].pc = "clock" => ~ClockShared(t))
  /\ [][\A t \in Tids : (ClockStep(t) \/ UnlockStep(t)) => HoldsSpin(t)]_vars


\* the places in the lock order (report_mtx 1, thread_mtx 2, a trace mutex 3) of
\* the locks thread t holds
HeldRanks(t) ==
  (IF report_mtx = t THEN {1} ELSE {}) \cup
  (IF thread_mtx = t THEN {2} ELSE {}) \cup
  (IF \E u \in Tids : trace_mtx[u] = t THEN {3} ELSE {})

\* the place of the lock thread t waits for, 0 if it waits for none
WaitsFor(t) ==
  IF call[t].pc \in { "registry", "rs_thread" } THEN 2
  ELSE IF call[t].pc \in { "switch", "rs_trace" } THEN 3
  ELSE IF call[t].pc = "idle" /\ mop[t].pc = "fin" /\ ReportsRace(mop[t].racy) THEN 1
  ELSE 0

\* no thread waits for a lock while it holds that lock or a later one, and no
\* thread holds two trace mutexes
WaitsInOrder ==
  \A t \in Tids :
    /\ WaitsFor(t) # 0 => \A r \in HeldRanks(t) : r < WaitsFor(t)
    /\ Cardinality({ u \in Tids : trace_mtx[u] = t }) <= 1

\* a lock is taken only by a thread whose other locks are earlier in the order
TakesInOrder ==
  \A t \in Tids : \A r \in HeldRanks(t)' \ HeldRanks(t) : \A q \in HeldRanks(t) : q < r

====
